---------------------------- MODULE Spec2Model ----------------------------
(***************************************************************************)
(* A model of the wpilibc Logger (Logger.cpp, Logger.h, LogLocation.cpp)   *)
(* and of the ErrorCodes registry it consults.                             *)
(*                                                                         *)
(* A std::string is a TLA+ string: Len, \o and SubSeq act on it character  *)
(* by character, and "" is the empty string.                               *)
(***************************************************************************)
EXTENDS Integers, Sequences, FiniteSets, TLC

(***************************************************************************)
(* Bounds of the model.                                                    *)
(***************************************************************************)
\* Log calls the producer threads may issue in one run.
MaxLogs == 2
\* AddListener / RemoveListener calls the client thread may issue in one run.
MaxListenerCalls == 2

\* The Log calls of the specifications that enumerate field contents, and the
\* longest field they enumerate.
MaxFormatCalls == 1
MaxFieldLen == 3

(***************************************************************************)
(* Program constants.                                                      *)
(***************************************************************************)
kNIWarning == 2
kNIError == 3
kDEBUG == 1
kWARNING == 2
kERROR == 3
\* const int kBufLen = 512 in FormatDefault
kBufLen == 512
\* __LINE__ of the LOG_FUNC call in RunStream
kStaleLogLine == 181

(***************************************************************************)
(* std::string helpers.                                                    *)
(***************************************************************************)
CharAt(s, i) == SubSeq(s, i, i)

\* A const char * argument: nullptr, or a pointer to the characters of s.
Null == [null |-> TRUE]
CStr(s) == [null |-> FALSE, str |-> s]

\* The first n characters of s (all of s when it is shorter).
Take(s, n) == IF Len(s) <= n THEN s ELSE SubSeq(s, 1, n)

\* Whether `find` occurs in `source` at (1-based) position i.
MatchAt(source, find, i) ==
    /\ i >= 1
    /\ i + Len(find) - 1 <= Len(source)
    /\ SubSeq(source, i, i + Len(find) - 1) = find

\* std::string::find(find, from): the first position >= from, 0 for npos.
Find(source, find, from) ==
    LET hits == {i \in from..(Len(source) - Len(find) + 1) :
                    MatchAt(source, find, i)}
    IN  IF hits = {} THEN 0 ELSE CHOOSE i \in hits : \A j \in hits : i <= j

\* std::string::rfind(find): the last position, 0 for npos.
RECURSIVE RFindFrom(_, _, _)
RFindFrom(source, find, from) ==
    IF from < 1 THEN 0
    ELSE IF MatchAt(source, find, from) THEN from
    ELSE RFindFrom(source, find, from - 1)

RFind(source, find) == RFindFrom(source, find, Len(source) - Len(find) + 1)

Digits == <<"0", "1", "2", "3", "4", "5", "6", "7", "8", "9">>

IsDigit(c) == \E d \in 1..10 : Digits[d] = c

DigitValue(c) == CHOOSE d \in 0..9 : Digits[d + 1] = c

\* std::to_string(int): decimal digits, a leading minus for a negative value.
RECURSIVE NatToString(_)
NatToString(n) ==
    IF n < 10 THEN Digits[n + 1]
    ELSE NatToString(n \div 10) \o Digits[(n % 10) + 1]

IntToString(n) == IF n < 0 THEN "-" \o NatToString(-n) ELSE NatToString(n)

\* std::atoi: skip leading white space, read an optional sign, then the
\* decimal digits up to the first other character; 0 when there are none.
RECURSIVE SkipSpace(_, _)
SkipSpace(s, i) ==
    IF i <= Len(s) /\ CharAt(s, i) \in {" ", "\t", "\n", "\r"}
    THEN SkipSpace(s, i + 1) ELSE i

RECURSIVE ReadDigits(_, _, _)
ReadDigits(s, i, acc) ==
    IF i <= Len(s) /\ IsDigit(CharAt(s, i))
    THEN ReadDigits(s, i + 1, 10 * acc + DigitValue(CharAt(s, i)))
    ELSE acc

Atoi(s) ==
    LET i == SkipSpace(s, 1)
        signed == i <= Len(s) /\ CharAt(s, i) \in {"+", "-"}
        val == ReadDigits(s, IF signed THEN i + 1 ELSE i, 0)
    IN  IF signed /\ CharAt(s, i) = "-" THEN -val ELSE val

(***************************************************************************)
(* Logger::FindAndReplace: scan from i = 0; at each occurrence of `find`   *)
(* put `replace` in its place and go on after the replacement.             *)
(***************************************************************************)
RECURSIVE FindAndReplaceFrom(_, _, _, _)
FindAndReplaceFrom(source, find, replace, i) ==
    LET at == Find(source, find, i)
    IN  IF at = 0 THEN source
        ELSE FindAndReplaceFrom(
                 SubSeq(source, 1, at - 1) \o replace
                     \o SubSeq(source, at + Len(find), Len(source)),
                 find, replace, at + Len(replace))

FindAndReplace(source, find, replace) ==
    FindAndReplaceFrom(source, find, replace, 1)

(***************************************************************************)
(* LogLocation.                                                            *)
(***************************************************************************)
\* LogLocation::operator std::string: file:func:line
LocationString(loc) ==
    loc.file \o ":" \o loc.func \o ":" \o IntToString(loc.line)

\* LogLocation::ShortFilename
ShortFilename(name) ==
    LET first == Find(name, "wpilib", 1)
        start == IF first = 0 THEN RFind(name, "src") ELSE first
    IN  IF start = 0 THEN name ELSE SubSeq(name, start, Len(name))

\* What a read of a destroyed std::string's buffer may give besides the old
\* contents.
Garbage == "?"

\* LogLocation::operator const char *: the c_str() of a temporary std::string
\* that is destroyed before the pointer is returned.  Reading it is undefined:
\* the bytes may still be the location string, or anything else.
LocationCStr(loc) == {LocationString(loc), Garbage}

(***************************************************************************)
(* ErrorCodes.                                                             *)
(***************************************************************************)
\* The CODE(name, code, msg) lines of the constructor, in order.
CodeTable == <<
    [name |-> "ModuleIndexOutOfRange", code |-> -1,
      msg |-> "Allocating module that is out of range or not found"],
    [name |-> "ChannelIndexOutOfRange", code |-> -1,
      msg |-> "Allocating channel that is out of range"],
    [name |-> "NotAllocated", code |-> -2,
      msg |-> "Attempting to free unallocated resource"],
    [name |-> "ResourceAlreadyAllocated", code |-> -3,
      msg |-> "Attempted to reuse an allocated resource"],
    [name |-> "NoAvailableResources", code |-> -4,
      msg |-> "No available resources to allocate"],
    [name |-> "NullParameter", code |-> -5,
      msg |-> "A pointer parameter to a method is nullptr"],
    [name |-> "Timeout", code |-> -6,
      msg |-> "A timeout has been exceeded"],
    [name |-> "CompassManufacturerError", code |-> -7,
      msg |-> "Compass manufacturer doesn't match HiTechnic"],
    [name |-> "CompassTypeError", code |-> -8,
      msg |-> "Compass type doesn't match expected type for HiTechnic compa"
          \o "ss"],
    [name |-> "IncompatibleMode", code |-> -9,
      msg |-> "The object is in an incompatible mode"],
    [name |-> "AnalogTriggerLimitOrderError", code |-> -10,
      msg |-> "AnalogTrigger limits error.  Lower limit > Upper Limit"],
    [name |-> "AnalogTriggerPulseOutputError", code |-> -11,
      msg |-> "Attempted to read AnalogTrigger pulse output."],
    [name |-> "TaskError", code |-> -12,
      msg |-> "Task can't be started"],
    [name |-> "TaskIDError", code |-> -13,
      msg |-> "Task error: Invalid ID."],
    [name |-> "TaskDeletedError", code |-> -14,
      msg |-> "Task error: Task already deleted."],
    [name |-> "TaskOptionsError", code |-> -15,
      msg |-> "Task error: Invalid options."],
    [name |-> "TaskMemoryError", code |-> -16,
      msg |-> "Task can't be started due to insufficient memory."],
    [name |-> "TaskPriorityError", code |-> -17,
      msg |-> "Task error: Invalid priority [1-255]."],
    [name |-> "DriveUninitialized", code |-> -18,
      msg |-> "RobotDrive not initialized for the C interface"],
    [name |-> "CompressorNonMatching", code |-> -19,
      msg |-> "Compressor slot/channel doesn't match previous instance"],
    [name |-> "CompressorAlreadyDefined", code |-> -20,
      msg |-> "Creating a second compressor instance"],
    [name |-> "CompressorUndefined", code |-> -21,
      msg |-> "Using compressor functions without defining compressor"],
    [name |-> "InconsistentArrayValueAdded", code |-> -22,
      msg |-> "When packing data into an array to the dashboard, not all va"
          \o "lues added were of the same type."],
    [name |-> "MismatchedComplexTypeClose", code |-> -23,
      msg |-> "When packing data to the dashboard, a Close for a complex ty"
          \o "pe was called without a matching Open."],
    [name |-> "DashboardDataOverflow", code |-> -24,
      msg |-> "When packing data to the dashboard, too much data was packed"
          \o " and the buffer overflowed."],
    [name |-> "DashboardDataCollision", code |-> -25,
      msg |-> "The same buffer was used for packing data and for printing."],
    [name |-> "EnhancedIOMissing", code |-> -26,
      msg |-> "IO is not attached or Enhanced IO is not enabled."],
    [name |-> "LineNotOutput", code |-> -27,
      msg |-> "Cannot SetDigitalOutput for a line not configured for output"
          \o "."],
    [name |-> "ParameterOutOfRange", code |-> -28,
      msg |-> "A parameter is out of range."],
    [name |-> "SPIClockRateTooLow", code |-> -29,
      msg |-> "SPI clock rate was below the minimum supported"],
    [name |-> "JaguarVersionError", code |-> -30,
      msg |-> "Jaguar firmware version error"],
    [name |-> "JaguarMessageNotFound", code |-> -31,
      msg |-> "Jaguar message not found"],
    [name |-> "NetworkTablesReadError", code |-> -40,
      msg |-> "Error reading NetworkTables socket"],
    [name |-> "NetworkTablesBufferFull", code |-> -41,
      msg |-> "Buffer full writing to NetworkTables socket"],
    [name |-> "NetworkTablesWrongType", code |-> -42,
      msg |-> "The wrong type was read from the NetworkTables entry"],
    [name |-> "NetworkTablesCorrupt", code |-> -43,
      msg |-> "NetworkTables data stream is corrupt"],
    [name |-> "SmartDashboardMissingKey", code |-> -43,
      msg |-> "SmartDashboard data does not exist"],
    [name |-> "CommandIllegalUse", code |-> -50,
      msg |-> "Illegal use of Command"],
    [name |-> "UnsupportedInSimulation", code |-> -80,
      msg |-> "Unsupported in simulation"],
    [name |-> "SampleRateTooHigh", code |-> 1,
      msg |-> "Analog module sample rate is too high"],
    [name |-> "VoltageOutOfRange", code |-> 2,
      msg |-> "Voltage to convert to raw value is out of range [-10; 10]"],
    [name |-> "CompressorTaskError", code |-> 3,
      msg |-> "Compressor task won't start"],
    [name |-> "LoopTimingError", code |-> 4,
      msg |-> "Digital module loop timing is not the expected value"],
    [name |-> "NonBinaryDigitalValue", code |-> 5,
      msg |-> "Digital output value is not 0 or 1"],
    [name |-> "IncorrectBatteryChannel", code |-> 6,
      msg |-> "Battery measurement channel is not correct value"],
    [name |-> "BadJoystickIndex", code |-> 7,
      msg |-> "Joystick index is out of range, should be 0-3"],
    [name |-> "BadJoystickAxis", code |-> 8,
      msg |-> "Joystick axis or POV is out of range"],
    [name |-> "InvalidMotorIndex", code |-> 9,
      msg |-> "Motor index is out of range, should be 0-3"],
    [name |-> "DriverStationTaskError", code |-> 10,
      msg |-> "Driver Station task won't start"],
    [name |-> "EnhancedIOPWMPeriodOutOfRange", code |-> 11,
      msg |-> "Driver Station Enhanced IO PWM Output period out of range."],
    [name |-> "SPIWriteNoMOSI", code |-> 12,
      msg |-> "Cannot write to SPI port with no MOSI output"],
    [name |-> "SPIReadNoMISO", code |-> 13,
      msg |-> "Cannot read from SPI port with no MISO input"],
    [name |-> "SPIReadNoData", code |-> 14,
      msg |-> "No data available to read from SPI"],
    [name |-> "IncompatibleState", code |-> 15,
      msg |-> "Incompatible State: The operation cannot be completed"]
>>

\* ErrorCodes::Add returns false and adds nothing when the code is already
\* registered: entry i of the table is added iff no earlier entry has its code.
Add(i) == \A j \in 1..(i - 1) : CodeTable[j].code # CodeTable[i].code

Added == {i \in 1..Len(CodeTable) : Add(i)}

\* ErrorCodes::ErrorCodes: m_codes and m_names once every entry was offered
\* to Add.
m_codes ==
    [c \in {CodeTable[i].code : i \in Added} |->
        CodeTable[CHOOSE i \in Added : CodeTable[i].code = c].msg]

m_names ==
    [n \in {CodeTable[i].name : i \in Added} |->
        CodeTable[CHOOSE i \in Added : CodeTable[i].name = n].code]

\* ErrorCodes::Get
Get(code) == IF code \in DOMAIN m_codes THEN m_codes[code] ELSE ""

\* ErrorCodes::GetCode.  m_names is a std::map<const char *, int>: its keys
\* are the addresses of the constructor's string literals, and the lookup
\* compares the address of the caller's string with them.  Whether two equal
\* literals share an address is up to the toolchain, so a registered name is
\* found (its code) or not found (0); an unregistered name is never found.
GetCode(name) ==
    IF name \in DOMAIN m_names THEN {m_names[name], 0} ELSE {0}

(***************************************************************************)
(* Threads, sinks and the inputs of the calls.                             *)
(***************************************************************************)
Producers == {"p1", "p2"}
Flusher == "flusher"
LogThreads == Producers \cup {Flusher}
None == "none"

\* The output sinks a client may register, in the order std::owner_less
\* gives their control blocks.
SinkOrder == <<"s1", "s2">>
Sinks == {SinkOrder[i] : i \in 1..Len(SinkOrder)}

\* steady_clock::now() at a Log call, in milliseconds.
Now == 100

\* The location and the originator the modelled call sites pass.
Loc0 == [file |-> "a.cpp", func |-> "f", line |-> 10]
Originator0 == "SensorX"

\* GetStackTrace(depth): the text of the call stack below `depth` frames.
GetStackTrace(depth) == "#" \o IntToString(depth)

\* The formatters a client may register with AddFormatter.
Formatters == {"brief"}
ApplyFormatter(f, m) == "#" \o m.details \o "\n"

NoMsg == [level |-> 0]

\* An empty std::map.
EmptyMap == [x \in {} |-> ""]

(***************************************************************************)
(* Formatting.  m_levels[level] is std::map::operator[]: it inserts an     *)
(* empty name for a level the map does not hold.                           *)
(***************************************************************************)
\* A variant of IndexLevels that names an unknown level "?".
IndexLevelsUnknown(levels, level) ==
    IF level \in DOMAIN levels THEN levels ELSE (level :> "?") @@ levels

IndexLevels(levels, level) ==
    IF level \in DOMAIN levels THEN levels ELSE (level :> "") @@ levels

\* Logger::FormatDefault: snprintf into a buffer of kBufLen characters keeps
\* at most kBufLen - 1 of them.
FormatDefault(levels, m) ==
    Take("[" \o IndexLevels(levels, m.level)[m.level] \o "]: From "
             \o ShortFilename(LocationString(m.location)) \o ": "
             \o m.details \o "\n",
         kBufLen - 1)

\* A variant of Escape that escapes the commas before the backslashes.
EscapeCommaFirst(str) ==
    FindAndReplace(FindAndReplace(FindAndReplace(str, ",", "\\,"),
                                  "\\", "\\\\"),
                   ";", "\\;")

\* The escapes FormatParseable applies to each component.
Escape(str) ==
    FindAndReplace(FindAndReplace(FindAndReplace(str, "\\", "\\\\"),
                                  ",", "\\,"),
                   ";", "\\;")

RECURSIVE JoinComponents(_)
JoinComponents(components) ==
    IF components = <<>> THEN ""
    ELSE Escape(Head(components)) \o "," \o JoinComponents(Tail(components))

\* A variant of FormatParseable that joins the components as they are.
RECURSIVE JoinRaw(_)
JoinRaw(components) ==
    IF components = <<>> THEN ""
    ELSE Head(components) \o "," \o JoinRaw(Tail(components))

FormatParseableRaw(levels, m) ==
    LET components == <<IntToString(m.level),
                        IndexLevels(levels, m.level)[m.level],
                        IntToString(m.code), Get(m.code),
                        LocationString(m.location),
                        IntToString(m.timestamp), m.stacktrace,
                        m.originatingObject, m.details>>
        result == JoinRaw(components)
    IN  SubSeq(result, 1, Len(result) - 1) \o ";\n"

\* Logger::FormatParseable
FormatParseable(levels, m) ==
    LET components == <<IntToString(m.level),
                        IndexLevels(levels, m.level)[m.level],
                        IntToString(m.code), Get(m.code),
                        LocationString(m.location),
                        IntToString(m.timestamp), m.stacktrace,
                        m.originatingObject, m.details>>
        result == JoinComponents(components)
    IN  SubSeq(result, 1, Len(result) - 1) \o ";\n"

(***************************************************************************)
(* Logger::Log and the three Process functions, as functions of the        *)
(* configuration they read.                                                *)
(***************************************************************************)
\* The condition of line 63.
\* A variant of IsNILevel that takes every level from kNIWarning up.
IsNILevelFrom(level) == level >= kNIWarning

IsNILevel(level) == level = kNIWarning \/ level = kNIError

\* Logger::ProcessNILog: the arguments HALSendError may receive.
ProcessNILog(m) ==
    {[isError |-> (m.level = kNIError), code |-> m.code,
      details |-> m.details, location |-> l, stacktrace |-> m.stacktrace] :
        l \in LocationCStr(m.location)}

\* Logger::ProcessLog: the line written to std::cout and m_levels afterwards.
ProcessLog(levels, formats, m) ==
    IF m.level \in DOMAIN formats
    THEN [out |-> ApplyFormatter(formats[m.level], m), levels |-> levels]
    ELSE [out |-> FormatDefault(levels, m),
          levels |-> IndexLevels(levels, m.level)]

\* A variant of Dispatch that writes a message the hardware channel did not
\* take to std::cout.
DispatchFallThrough(useNI, usestdout, levels, formats, m) ==
    IF IsNILevel(m.level) /\ useNI
    THEN {[hw |-> <<c>>, con |-> "", levels |-> levels] :
              c \in ProcessNILog(m)}
    ELSE IF usestdout
         THEN {[hw |-> <<>>, con |-> ProcessLog(levels, formats, m).out,
                levels |-> ProcessLog(levels, formats, m).levels]}
         ELSE {[hw |-> <<>>, con |-> "", levels |-> levels]}

\* Lines 63-68 of Logger::Log: the possible outcomes, each the HALSendError
\* calls made, the text written to std::cout and m_levels afterwards.
Dispatch(useNI, usestdout, levels, formats, m) ==
    IF IsNILevel(m.level)
    THEN IF useNI
         THEN {[hw |-> <<c>>, con |-> "", levels |-> levels] :
                   c \in ProcessNILog(m)}
         ELSE {[hw |-> <<>>, con |-> "", levels |-> levels]}
    ELSE IF usestdout
         THEN {[hw |-> <<>>, con |-> ProcessLog(levels, formats, m).out,
                levels |-> ProcessLog(levels, formats, m).levels]}
         ELSE {[hw |-> <<>>, con |-> "", levels |-> levels]}

\* A variant of ProcessCommon that always uses the parseable formatter.
ProcessCommonParseable(levels, formats, m, formattedArg) ==
    IF Len(formattedArg) = 0
    THEN [out |-> FormatParseable(levels, m),
          levels |-> IndexLevels(levels, m.level)]
    ELSE [out |-> formattedArg, levels |-> levels]

\* Lines 98-102 of Logger::ProcessCommon(msg, formatted): the line for the
\* buffer and m_levels afterwards.
ProcessCommon(levels, formats, m, formattedArg) ==
    IF Len(formattedArg) = 0
    THEN IF m.level \in DOMAIN formats
         THEN [out |-> ApplyFormatter(formats[m.level], m), levels |-> levels]
         ELSE [out |-> FormatParseable(levels, m),
               levels |-> IndexLevels(levels, m.level)]
    ELSE [out |-> formattedArg, levels |-> levels]

\* A variant of CommonArg that hands the console line to ProcessCommon.
CommonArgConsole(consoleLine) == consoleLine

\* Line 70: Log calls ProcessCommon(msg), so `formatted` is its default "",
\* whatever line the console path wrote.
CommonArg(consoleLine) == ""

\* A variant of AfterDispatch that returns after the hardware path.
AfterDispatchSkipsNI(m) == IF IsNILevel(m.level) THEN "idle" ELSE "common"

\* Line 70 is reached on every path through lines 63-68.
AfterDispatch(m) == "common"

\* Lines 49-54 of Logger::Log(int, const char *, ...): the codes the name may
\* resolve to.
ResolveCode(codename) ==
    IF codename.null THEN {0}
    ELSE IF Atoi(codename.str) # 0 THEN {Atoi(codename.str)}
    ELSE GetCode(codename.str)

\* The LogMessage of lines 60-62.
MakeMsg(level, code, details, location, originator, depth) ==
    [level |-> level, code |-> code, details |-> details,
     location |-> location, timestamp |-> Now,
     stacktrace |-> GetStackTrace(depth), originatingObject |-> originator]

\* The message of the LOG_FUNC call in RunStream.
StaleMsg ==
    MakeMsg(kWARNING, 0, "Deleting log listener from listener list.",
            [file |-> "Logger.cpp", func |-> "static void Logger::RunStream()",
             line |-> kStaleLogLine], "", 3)

(***************************************************************************)
(* State.                                                                  *)
(***************************************************************************)
VARIABLES
    m_usestdout, m_useNI,   \* the two toggles
    m_levels,               \* level -> name
    m_levelFormats,         \* level -> formatter
    m_pending,              \* the pending buffer
    m_listeners,            \* the set of weak references to sinks
    m_runThread,            \* the flusher's run flag
    m_queueMutex,           \* the thread holding the buffer lock, or None
    m_streamMutex,          \* the thread holding the listener lock, or None
    lpc, msg, formatted,    \* per thread: place in Log, its message, its line
    fpc, pending, listeners,\* RunStream: place, and its two local copies
    alive,                  \* per sink: a strong reference still exists
    sinkText,               \* per sink: the text written to it
    recv,                   \* per sink: which of the drained chunks it got
    call,                   \* the client's AddListener/RemoveListener call
    dpc,                    \* the place of the thread destroying the Logger
    hwSent, conOut,         \* per thread: the HALSendError calls and the
                            \* std::cout text of its current Log call
    nLogs, nListenerCalls,  \* calls issued so far
    flushReq,               \* the number of entries appended when FlushStream
                            \* was last called with a non-empty buffer
    appended,               \* the Log calls that returned, in the order of
                            \* their appends: the thread, the level, the
                            \* line appended, the number of HALSendError
                            \* calls and the text written to std::cout
    drained,                \* the chunks RunStream took, in order
    twin,                   \* a second Logger, given the same calls with
                            \* the opposite SetStdoutEnable setting
    nStale,                 \* Log calls RunStream made for dead listeners
    cycle                   \* of the current flush cycle: the sinks that were
                            \* dead when it drained, and the sinks it copied

config == <<m_usestdout, m_useNI, m_levels, m_levelFormats>>
locks == <<m_queueMutex, m_streamMutex>>
logLocals == <<lpc, msg, formatted>>
flushLocals == <<fpc, pending, listeners>>
sinks == <<alive, sinkText, recv>>
effects == <<hwSent, conOut>>
counters == <<nLogs, nListenerCalls, flushReq>>
vars == <<config, m_pending, m_listeners, m_runThread, locks, logLocals,
          flushLocals, sinks, call, dpc, effects, counters, appended, drained,
          twin, nStale, cycle>>

NoCall == [op |-> "none"]

\* Logger.h lines 135-136 and 150-160: the member initialisers.
InitLevels == (1 :> "DEBUG") @@ (2 :> "WARNING") @@ (3 :> "ERROR")

Init ==
    /\ m_usestdout = TRUE
    /\ m_useNI = TRUE
    /\ m_levels = InitLevels
    /\ m_levelFormats = EmptyMap
    /\ m_pending = ""
    /\ m_listeners = {}
    /\ m_runThread = TRUE
    /\ m_queueMutex = None
    /\ m_streamMutex = None
    /\ lpc = [t \in LogThreads |-> "idle"]
    /\ msg = [t \in LogThreads |-> NoMsg]
    /\ formatted = [t \in LogThreads |-> ""]
    /\ fpc = "loop"
    /\ pending = ""
    /\ listeners = <<>>
    /\ alive = [s \in Sinks |-> TRUE]
    /\ sinkText = [s \in Sinks |-> ""]
    /\ recv = [s \in Sinks |-> {}]
    /\ call = NoCall
    /\ dpc = "alive"
    /\ hwSent = [t \in LogThreads |-> <<>>]
    /\ conOut = [t \in LogThreads |-> ""]
    /\ nLogs = 0
    /\ nListenerCalls = 0
    /\ flushReq = 0
    /\ appended = <<>>
    /\ drained = <<>>
    /\ twin = [levels |-> InitLevels, pending |-> "",
               con |-> [t \in LogThreads |-> ""],
               formatted |-> [t \in LogThreads |-> ""]]
    /\ nStale = 0
    /\ cycle = [dead |-> {}, snap |-> {}]

(***************************************************************************)
(* Logger::Log on thread t, in four steps: lines 60-68 (the message and    *)
(* the synchronous paths), 98-102 (the line for the buffer), 103 (the      *)
(* buffer lock) and 104-105 (the append, the unlock and the return).  The  *)
(* twin takes each step with the primary.                                  *)
(***************************************************************************)
LogDispatch(t, m) ==
    /\ lpc[t] = "idle"
    /\ \E d \in Dispatch(m_useNI, m_usestdout, m_levels, m_levelFormats, m) :
        /\ hwSent' = [hwSent EXCEPT ![t] = d.hw]
        /\ conOut' = [conOut EXCEPT ![t] = d.con]
        /\ m_levels' = d.levels
    /\ LET td == CHOOSE x \in Dispatch(m_useNI, ~m_usestdout, twin.levels,
                                       m_levelFormats, m) : TRUE
       IN  twin' = [twin EXCEPT !.levels = td.levels, !.con[t] = td.con]
    /\ msg' = [msg EXCEPT ![t] = m]
    /\ lpc' = [lpc EXCEPT ![t] = AfterDispatch(m)]

ProcessCommonFormat(t) ==
    /\ lpc[t] = "common"
    /\ LET c == ProcessCommon(m_levels, m_levelFormats, msg[t],
                              CommonArg(conOut[t]))
           tc == ProcessCommon(twin.levels, m_levelFormats, msg[t],
                               CommonArg(twin.con[t]))
       IN  /\ formatted' = [formatted EXCEPT ![t] = c.out]
           /\ m_levels' = c.levels
           /\ twin' = [twin EXCEPT !.levels = tc.levels,
                                   !.formatted[t] = tc.out]
    /\ lpc' = [lpc EXCEPT ![t] = "lock"]
    /\ UNCHANGED <<m_usestdout, m_useNI, m_levelFormats, m_pending,
                   m_listeners, m_runThread, locks, msg, flushLocals, sinks,
                   call, dpc, effects, counters, appended, drained, nStale,
                   cycle>>

\* A variant of ProcessCommonLock that appends without the buffer lock.
ProcessCommonNoLock(t) ==
    /\ lpc[t] = "lock"
    /\ lpc' = [lpc EXCEPT ![t] = "append"]
    /\ UNCHANGED <<config, m_pending, m_listeners, m_runThread, locks, msg,
                   formatted, flushLocals, sinks, call, dpc, effects,
                   counters, appended, drained, twin, nStale, cycle>>

\* A variant of ProcessCommonLock in which Log takes the buffer lock only
\* when the listener lock is free, as if it took the listener lock too.
ProcessCommonLockAfterListener(t) ==
    /\ lpc[t] = "lock"
    /\ m_queueMutex = None
    /\ m_streamMutex = None
    /\ m_queueMutex' = t
    /\ lpc' = [lpc EXCEPT ![t] = "append"]
    /\ UNCHANGED <<config, m_pending, m_listeners, m_runThread, m_streamMutex,
                   msg, formatted, flushLocals, sinks, call, dpc, effects,
                   counters, appended, drained, twin, nStale, cycle>>

\* Line 103.
ProcessCommonLock(t) ==
    /\ lpc[t] = "lock"
    /\ m_queueMutex = None
    /\ m_queueMutex' = t
    /\ lpc' = [lpc EXCEPT ![t] = "append"]
    /\ UNCHANGED <<config, m_pending, m_listeners, m_runThread, m_streamMutex,
                   msg, formatted, flushLocals, sinks, call, dpc, effects,
                   counters, appended, drained, twin, nStale, cycle>>

\* A variant of ProcessCommonAppend that puts the line at the front of the
\* buffer.
ProcessCommonPrepend(t) ==
    /\ lpc[t] = "append"
    /\ m_pending' = formatted[t] \o m_pending
    /\ appended' = Append(appended,
                           [thread |-> t, level |-> msg[t].level,
                            line |-> formatted[t], hw |-> Len(hwSent[t]),
                            con |-> conOut[t]])
    /\ m_queueMutex' = None
    /\ lpc' = [lpc EXCEPT ![t] = "idle"]
    /\ msg' = [msg EXCEPT ![t] = NoMsg]
    /\ formatted' = [formatted EXCEPT ![t] = ""]
    /\ hwSent' = [hwSent EXCEPT ![t] = <<>>]
    /\ conOut' = [conOut EXCEPT ![t] = ""]
    /\ twin' = [twin EXCEPT !.pending = @ \o twin.formatted[t],
                            !.con[t] = "", !.formatted[t] = ""]
    /\ UNCHANGED <<config, m_listeners, m_runThread, m_streamMutex,
                   flushLocals, sinks, call, dpc, counters, drained, nStale,
                   cycle>>

\* A variant of ProcessCommonAppend in which a line the flusher appends
\* joins the chunk the flusher is writing.
ProcessCommonAppendChunk(t) ==
    /\ lpc[t] = "append"
    /\ IF t = Flusher
       THEN /\ pending' = pending \o formatted[t]
            /\ UNCHANGED m_pending
       ELSE /\ m_pending' = m_pending \o formatted[t]
            /\ UNCHANGED pending
    /\ appended' = Append(appended,
                           [thread |-> t, level |-> msg[t].level,
                            line |-> formatted[t], hw |-> Len(hwSent[t]),
                            con |-> conOut[t]])
    /\ m_queueMutex' = None
    /\ lpc' = [lpc EXCEPT ![t] = "idle"]
    /\ msg' = [msg EXCEPT ![t] = NoMsg]
    /\ formatted' = [formatted EXCEPT ![t] = ""]
    /\ hwSent' = [hwSent EXCEPT ![t] = <<>>]
    /\ conOut' = [conOut EXCEPT ![t] = ""]
    /\ twin' = [twin EXCEPT !.pending = @ \o twin.formatted[t],
                            !.con[t] = "", !.formatted[t] = ""]
    /\ UNCHANGED <<config, m_listeners, m_runThread, m_streamMutex, fpc,
                   listeners, sinks, call, dpc, counters, drained, nStale,
                   cycle>>

ProcessCommonAppend(t) ==
    /\ lpc[t] = "append"
    /\ m_pending' = m_pending \o formatted[t]
    /\ appended' = Append(appended,
                           [thread |-> t, level |-> msg[t].level,
                            line |-> formatted[t], hw |-> Len(hwSent[t]),
                            con |-> conOut[t]])
    /\ m_queueMutex' = None
    /\ lpc' = [lpc EXCEPT ![t] = "idle"]
    /\ msg' = [msg EXCEPT ![t] = NoMsg]
    /\ formatted' = [formatted EXCEPT ![t] = ""]
    /\ hwSent' = [hwSent EXCEPT ![t] = <<>>]
    /\ conOut' = [conOut EXCEPT ![t] = ""]
    /\ twin' = [twin EXCEPT !.pending = @ \o twin.formatted[t],
                            !.con[t] = "", !.formatted[t] = ""]
    /\ UNCHANGED <<config, m_listeners, m_runThread, m_streamMutex,
                   flushLocals, sinks, call, dpc, counters, drained, nStale,
                   cycle>>

\* A producer thread calls Log(level, code, details, location, originator).
LogFrom(t, level, code, details, location, originator) ==
    /\ dpc = "alive"
    /\ nLogs < MaxLogs
    /\ nLogs' = nLogs + 1
    /\ LogDispatch(t, MakeMsg(level, code, details, location, originator, 3))
    /\ UNCHANGED <<m_usestdout, m_useNI, m_levelFormats, m_pending,
                   m_listeners, m_runThread, locks, formatted, flushLocals,
                   sinks, call, dpc, nListenerCalls, flushReq, appended,
                   drained, nStale, cycle>>

\* The same call from the location and the object most runs use.
Log(t, level, code, details) ==
    LogFrom(t, level, code, details, Loc0, Originator0)

\* A producer thread calls Log(level, codename, ...), lines 47-55.
LogName(t, level, codename, details) ==
    \E code \in ResolveCode(codename) : Log(t, level, code, details)

(***************************************************************************)
(* Logger::RunStream, the flusher thread.  Its places: "loop" (line 163),  *)
(* "lockStream" (164), "wait" (165, the listener lock released), "woken"   *)
(* (165, notified and taking the listener lock again), "lockQueue" (166),  *)
(* "check" (167-168), "clear" (169-170), "copy" (172), "iter" (173-184),   *)
(* "stale" (181-182) and "exit".  The printf of line 174 is left out.      *)
(***************************************************************************)
\* A variant of RunStreamLoop that does not read the run flag.
RunStreamLoopForever ==
    /\ fpc = "loop"
    /\ fpc' = "lockStream"
    /\ UNCHANGED <<config, m_pending, m_listeners, m_runThread, locks,
                   logLocals, pending, listeners, sinks, call, dpc, effects,
                   counters, appended, drained, twin, nStale, cycle>>

\* Line 163: the run flag is read at the top of the loop.
RunStreamLoop ==
    /\ fpc = "loop"
    /\ fpc' = IF m_runThread THEN "lockStream" ELSE "exit"
    /\ UNCHANGED <<config, m_pending, m_listeners, m_runThread, locks,
                   logLocals, pending, listeners, sinks, call, dpc, effects,
                   counters, appended, drained, twin, nStale, cycle>>

\* Lines 164-165: the listener lock is taken, and wait() releases it.
RunStreamWait ==
    /\ fpc = "lockStream"
    /\ m_streamMutex = None
    /\ fpc' = "wait"
    /\ UNCHANGED <<config, m_pending, m_listeners, m_runThread, locks,
                   logLocals, pending, listeners, sinks, call, dpc, effects,
                   counters, appended, drained, twin, nStale, cycle>>

\* m_flushStream.notify_all(), line 208: it wakes the flusher if it waits,
\* and is lost otherwise.
NotifyAll ==
    /\ fpc' = IF fpc = "wait" THEN "woken" ELSE fpc
    /\ UNCHANGED <<config, m_pending, m_listeners, m_runThread, locks,
                   logLocals, pending, listeners, sinks, call, dpc, effects,
                   counters, appended, drained, twin, nStale, cycle>>

\* A variant of RunStreamWake in which wait() returns without the listener
\* lock.
RunStreamWakeNoLock ==
    /\ fpc = "woken"
    /\ fpc' = "lockQueue"
    /\ UNCHANGED <<config, m_pending, m_listeners, m_runThread, locks,
                   logLocals, pending, listeners, sinks, call, dpc, effects,
                   counters, appended, drained, twin, nStale, cycle>>

\* Line 165: wait() returns once it holds the listener lock again.
RunStreamWake ==
    /\ fpc = "woken"
    /\ m_streamMutex = None
    /\ m_streamMutex' = Flusher
    /\ fpc' = "lockQueue"
    /\ UNCHANGED <<config, m_pending, m_listeners, m_runThread, m_queueMutex,
                   logLocals, pending, listeners, sinks, call, dpc, effects,
                   counters, appended, drained, twin, nStale, cycle>>

\* A variant of RunStreamLockQueue that goes on without the buffer lock.
RunStreamLockQueueSkipped ==
    /\ fpc = "lockQueue"
    /\ fpc' = "check"
    /\ UNCHANGED <<config, m_pending, m_listeners, m_runThread, locks,
                   logLocals, pending, listeners, sinks, call, dpc, effects,
                   counters, appended, drained, twin, nStale, cycle>>

\* Line 166.
RunStreamLockQueue ==
    /\ fpc = "lockQueue"
    /\ m_queueMutex = None
    /\ m_queueMutex' = Flusher
    /\ fpc' = "check"
    /\ UNCHANGED <<config, m_pending, m_listeners, m_runThread, m_streamMutex,
                   logLocals, pending, listeners, sinks, call, dpc, effects,
                   counters, appended, drained, twin, nStale, cycle>>

\* A variant of RunStreamCheck that goes on to the drain with an empty buffer.
RunStreamCheckAlways ==
    /\ fpc = "check"
    /\ fpc' = "clear"
    /\ pending' = m_pending
    /\ UNCHANGED <<config, m_pending, m_listeners, m_runThread, locks,
                   logLocals, listeners, sinks, call, dpc, effects, counters,
                   appended, drained, twin, nStale, cycle>>

\* Lines 167-168: `continue` destroys both locks; otherwise the copy.
RunStreamCheck ==
    /\ fpc = "check"
    /\ IF Len(m_pending) = 0
       THEN /\ fpc' = "loop"
            /\ m_queueMutex' = None
            /\ m_streamMutex' = None
            /\ UNCHANGED pending
       ELSE /\ fpc' = "clear"
            /\ pending' = m_pending
            /\ UNCHANGED locks
    /\ UNCHANGED <<config, m_pending, m_listeners, m_runThread, logLocals,
                   listeners, sinks, call, dpc, effects, counters, appended,
                   drained, twin, nStale, cycle>>

\* A variant of RunStreamClear that keeps the buffer lock for the rest of
\* the cycle.
RunStreamClearKeepsLock ==
    /\ fpc = "clear"
    /\ m_pending' = ""
    /\ twin' = [twin EXCEPT !.pending = ""]
    /\ drained' = Append(drained, pending)
    /\ cycle' = [dead |-> {s \in Sinks : ~alive[s]}, snap |-> {}]
    /\ fpc' = "copy"
    /\ UNCHANGED <<config, m_listeners, m_runThread, locks, logLocals,
                   pending, listeners, sinks, call, dpc, effects, counters,
                   appended, nStale>>

\* Lines 169-170.
RunStreamClear ==
    /\ fpc = "clear"
    /\ m_pending' = ""
    /\ twin' = [twin EXCEPT !.pending = ""]
    /\ drained' = Append(drained, pending)
    /\ cycle' = [dead |-> {s \in Sinks : ~alive[s]}, snap |-> {}]
    /\ m_queueMutex' = None
    /\ fpc' = "copy"
    /\ UNCHANGED <<config, m_listeners, m_runThread, m_streamMutex, logLocals,
                   pending, listeners, sinks, call, dpc, effects, counters,
                   appended, nStale>>

\* The members of a set of sinks in the order the std::set iterates them.
RECURSIVE InOrder(_, _)
InOrder(set, i) ==
    IF i > Len(SinkOrder) THEN <<>>
    ELSE (IF SinkOrder[i] \in set THEN <<SinkOrder[i]>> ELSE <<>>)
         \o InOrder(set, i + 1)

\* A variant of RunStreamCopy that gives up the listener lock once it has
\* the copy.
RunStreamCopyUnlocks ==
    /\ fpc = "copy"
    /\ listeners' = InOrder(m_listeners, 1)
    /\ cycle' = [cycle EXCEPT !.snap = m_listeners]
    /\ m_streamMutex' = None
    /\ fpc' = "iter"
    /\ UNCHANGED <<config, m_pending, m_listeners, m_runThread, m_queueMutex,
                   logLocals, pending, sinks, call, dpc, effects, counters,
                   appended, drained, twin, nStale>>

\* Line 172.
RunStreamCopy ==
    /\ fpc = "copy"
    /\ listeners' = InOrder(m_listeners, 1)
    /\ cycle' = [cycle EXCEPT !.snap = m_listeners]
    /\ fpc' = "iter"
    /\ UNCHANGED <<config, m_pending, m_listeners, m_runThread, locks,
                   logLocals, pending, sinks, call, dpc, effects, counters,
                   appended, drained, twin, nStale>>

\* A variant of RunStreamWrite that writes what the buffer holds at the time
\* of the write instead of the copy taken at line 168.
RunStreamWriteBuffer ==
    /\ fpc = "iter"
    /\ listeners # <<>>
    /\ alive[Head(listeners)]
    /\ sinkText' = [sinkText EXCEPT ![Head(listeners)] = @ \o m_pending]
    /\ recv' = [recv EXCEPT ![Head(listeners)] = @ \cup {Len(drained)}]
    /\ listeners' = Tail(listeners)
    /\ UNCHANGED <<config, m_pending, m_listeners, m_runThread, locks,
                   logLocals, fpc, pending, alive, call, dpc, effects,
                   counters, appended, drained, twin, nStale, cycle>>

\* Lines 176-179: weakstream.lock() gave a stream.
RunStreamWrite ==
    /\ fpc = "iter"
    /\ listeners # <<>>
    /\ alive[Head(listeners)]
    /\ sinkText' = [sinkText EXCEPT ![Head(listeners)] = @ \o pending]
    /\ recv' = [recv EXCEPT ![Head(listeners)] = @ \cup {Len(drained)}]
    /\ listeners' = Tail(listeners)
    /\ UNCHANGED <<config, m_pending, m_listeners, m_runThread, locks,
                   logLocals, fpc, pending, alive, call, dpc, effects,
                   counters, appended, drained, twin, nStale, cycle>>

\* Line 181: weakstream.lock() gave nothing and RunStream calls Log.
RunStreamStale ==
    /\ fpc = "iter"
    /\ listeners # <<>>
    /\ ~alive[Head(listeners)]
    /\ LogDispatch(Flusher, StaleMsg)
    /\ nStale' = nStale + 1
    /\ fpc' = "stale"
    /\ UNCHANGED <<m_usestdout, m_useNI, m_levelFormats, m_pending,
                   m_listeners, m_runThread, locks, formatted, pending,
                   listeners, sinks, call, dpc, counters, appended, drained,
                   cycle>>

\* A variant of EraseListener that erases from the copy RunStream iterates.
EraseFromCopy(live, weakstream) == live

\* Line 182, m_listeners.erase(weakstream).
EraseListener(live, weakstream) == live \ {weakstream}

\* A variant of RunStreamErase that goes on with the loop and leaves the
\* dead listener in m_listeners.
RunStreamEraseSkipped ==
    /\ fpc = "stale"
    /\ lpc[Flusher] = "idle"
    /\ listeners' = Tail(listeners)
    /\ fpc' = "iter"
    /\ UNCHANGED <<config, m_pending, m_listeners, m_runThread, locks,
                   logLocals, pending, sinks, call, dpc, effects, counters,
                   appended, drained, twin, nStale, cycle>>

\* Line 182, once the Log call of line 181 returned.
RunStreamErase ==
    /\ fpc = "stale"
    /\ lpc[Flusher] = "idle"
    /\ m_listeners' = EraseListener(m_listeners, Head(listeners))
    /\ listeners' = Tail(listeners)
    /\ fpc' = "iter"
    /\ UNCHANGED <<config, m_pending, m_runThread, locks, logLocals, pending,
                   sinks, call, dpc, effects, counters, appended, drained,
                   twin, nStale, cycle>>

\* Line 185: the loop is over and the listener lock is destroyed.
RunStreamEnd ==
    /\ fpc = "iter"
    /\ listeners = <<>>
    /\ m_streamMutex' = None
    /\ fpc' = "loop"
    /\ UNCHANGED <<config, m_pending, m_listeners, m_runThread, m_queueMutex,
                   logLocals, pending, listeners, sinks, call, dpc, effects,
                   counters, appended, drained, twin, nStale, cycle>>

(***************************************************************************)
(* The accessors, the clients of the listener set and the destructor.      *)
(***************************************************************************)
\* Logger::FlushStream, called by a client.
FlushStream ==
    /\ dpc = "alive"
    /\ fpc' = IF fpc = "wait" THEN "woken" ELSE fpc
    /\ flushReq' = IF Len(m_pending) > 0 THEN Len(appended) ELSE flushReq
    /\ UNCHANGED <<config, m_pending, m_listeners, m_runThread, locks,
                   logLocals, pending, listeners, sinks, call, dpc, effects,
                   nLogs, nListenerCalls, appended, drained, twin, nStale,
                   cycle>>

\* A variant of StaticFlush that does not signal the flusher.
StaticFlushNoNotify ==
    /\ dpc # "destroyed"
    /\ UNCHANGED vars

\* Logger::StaticFlush, called by the Notifier the constructor started.
StaticFlush ==
    /\ dpc # "destroyed"
    /\ NotifyAll

SetStdoutEnable(enabled) ==
    /\ dpc = "alive"
    /\ m_usestdout' = enabled
    /\ UNCHANGED <<m_useNI, m_levels, m_levelFormats, m_pending, m_listeners,
                   m_runThread, locks, logLocals, flushLocals, sinks, call,
                   dpc, effects, counters, appended, drained, twin, nStale,
                   cycle>>

SetNIEnable(enabled) ==
    /\ dpc = "alive"
    /\ m_useNI' = enabled
    /\ UNCHANGED <<m_usestdout, m_levels, m_levelFormats, m_pending,
                   m_listeners, m_runThread, locks, logLocals, flushLocals,
                   sinks, call, dpc, effects, counters, appended, drained,
                   twin, nStale, cycle>>

AddLevel(level, name) ==
    /\ dpc = "alive"
    /\ m_levels' = [l \in DOMAIN m_levels \cup {level} |->
                        IF l = level THEN name ELSE m_levels[l]]
    /\ twin' = [twin EXCEPT !.levels =
                    [l \in DOMAIN twin.levels \cup {level} |->
                        IF l = level THEN name ELSE twin.levels[l]]]
    /\ UNCHANGED <<m_usestdout, m_useNI, m_levelFormats, m_pending,
                   m_listeners, m_runThread, locks, logLocals, flushLocals,
                   sinks, call, dpc, effects, counters, appended, drained,
                   nStale, cycle>>

AddFormatter(level, formatter) ==
    /\ dpc = "alive"
    /\ m_levelFormats' = [l \in DOMAIN m_levelFormats \cup {level} |->
                              IF l = level THEN formatter
                              ELSE m_levelFormats[l]]
    /\ UNCHANGED <<m_usestdout, m_useNI, m_levels, m_pending, m_listeners,
                   m_runThread, locks, logLocals, flushLocals, sinks, call,
                   dpc, effects, counters, appended, drained, twin, nStale,
                   cycle>>

\* A client calls AddListener or RemoveListener with a reference to sink s.
CallListener(op, s) ==
    /\ dpc = "alive"
    /\ call.op = "none"
    /\ nListenerCalls < MaxListenerCalls
    /\ nListenerCalls' = nListenerCalls + 1
    /\ call' = [op |-> op, sink |-> s]
    /\ UNCHANGED <<config, m_pending, m_listeners, m_runThread, locks,
                   logLocals, flushLocals, sinks, dpc, effects, nLogs,
                   flushReq, appended, drained, twin, nStale, cycle>>

\* Lines 260-261: the call gets the listener lock, inserts and returns.
AddListener ==
    /\ call.op = "add"
    /\ m_streamMutex = None
    /\ m_listeners' = m_listeners \cup {call.sink}
    /\ call' = NoCall
    /\ UNCHANGED <<config, m_pending, m_runThread, locks, logLocals,
                   flushLocals, sinks, dpc, effects, counters, appended,
                   drained, twin, nStale, cycle>>

\* A variant of RemoveListener that erases without waiting for the listener
\* lock.
RemoveListenerNoLock ==
    /\ call.op = "remove"
    /\ m_listeners' = m_listeners \ {call.sink}
    /\ call' = NoCall
    /\ UNCHANGED <<config, m_pending, m_runThread, locks, logLocals,
                   flushLocals, sinks, dpc, effects, counters, appended,
                   drained, twin, nStale, cycle>>

\* Lines 269-270.
RemoveListener ==
    /\ call.op = "remove"
    /\ m_streamMutex = None
    /\ m_listeners' = m_listeners \ {call.sink}
    /\ call' = NoCall
    /\ UNCHANGED <<config, m_pending, m_runThread, locks, logLocals,
                   flushLocals, sinks, dpc, effects, counters, appended,
                   drained, twin, nStale, cycle>>

\* The client drops its last std::shared_ptr to sink s.
DropSink(s) ==
    /\ alive[s]
    /\ alive' = [alive EXCEPT ![s] = FALSE]
    /\ UNCHANGED <<config, m_pending, m_listeners, m_runThread, locks,
                   logLocals, flushLocals, sinkText, recv, call, dpc, effects,
                   counters, appended, drained, twin, nStale, cycle>>

\* Logger::~Logger, line 22.
DestructorStop ==
    /\ dpc = "alive"
    /\ call.op = "none"
    /\ \A t \in Producers : lpc[t] = "idle"
    /\ m_runThread' = FALSE
    /\ dpc' = "join"
    /\ UNCHANGED <<config, m_pending, m_listeners, locks, logLocals,
                   flushLocals, sinks, call, effects, counters, appended,
                   drained, twin, nStale, cycle>>

\* Line 23: join() returns once RunStream has returned.
DestructorJoin ==
    /\ dpc = "join"
    /\ fpc = "exit"
    /\ dpc' = "destroyed"
    /\ UNCHANGED <<config, m_pending, m_listeners, m_runThread, locks,
                   logLocals, flushLocals, sinks, call, effects, counters,
                   appended, drained, twin, nStale, cycle>>

(***************************************************************************)
(* The steps of the threads.                                               *)
(***************************************************************************)
LogStep(t) ==
    \/ ProcessCommonFormat(t)
    \/ ProcessCommonLock(t)
    \/ ProcessCommonAppend(t)

\* RunStream up to the drain, and the end of its cycle.
DrainStep ==
    \/ RunStreamLoop
    \/ RunStreamWait
    \/ RunStreamWake
    \/ RunStreamLockQueue
    \/ RunStreamCheck
    \/ RunStreamClear
    \/ RunStreamCopy
    \/ RunStreamEnd

\* RunStream's loop over the listeners it copied.
DeliverStep ==
    \/ RunStreamWrite
    \/ RunStreamStale
    \/ LogStep(Flusher)
    \/ RunStreamErase

ListenerStep ==
    \/ \E op \in {"add", "remove"}, s \in Sinks : CallListener(op, s)
    \/ AddListener
    \/ RemoveListener
    \/ \E s \in Sinks : DropSink(s)

(***************************************************************************)
(* The whole program: every operation, with every input.                   *)
(***************************************************************************)
LogLevels == {kDEBUG, kWARNING, kERROR, 42}
LogCodes == {0, -6}
LogCodeNames == {Null, CStr("Timeout"), CStr("-6"), CStr("NoSuchName")}
LogDetails == {"a", ";\n"}
LevelNames == {"CUSTOM"}

Next ==
    \/ \E t \in Producers, level \in LogLevels, code \in LogCodes,
          details \in LogDetails : Log(t, level, code, details)
    \/ \E t \in Producers, level \in LogLevels, codename \in LogCodeNames,
          details \in LogDetails : LogName(t, level, codename, details)
    \/ \E t \in Producers : LogStep(t)
    \/ DrainStep
    \/ DeliverStep
    \/ FlushStream
    \/ StaticFlush
    \/ \E b \in BOOLEAN : SetStdoutEnable(b)
    \/ \E c \in BOOLEAN : SetNIEnable(c)
    \/ \E level \in LogLevels, name \in LevelNames : AddLevel(level, name)
    \/ \E level \in LogLevels, f \in Formatters : AddFormatter(level, f)
    \/ ListenerStep
    \/ DestructorStop
    \/ DestructorJoin

Spec == Init /\ [][Next]_vars

(***************************************************************************)
(* The buffer: two producers and the flusher's drain, with no listener.    *)
(***************************************************************************)
BufferLevels == {kDEBUG, kWARNING}
BufferDetails == {";\n"}
BufferCodeNames == {CStr("Timeout")}

BufferNext ==
    \/ \E t \in Producers, level \in BufferLevels, details \in BufferDetails :
          Log(t, level, 0, details)
    \/ \E t \in Producers, codename \in BufferCodeNames,
          details \in BufferDetails : LogName(t, kDEBUG, codename, details)
    \/ \E t \in Producers : LogStep(t)
    \/ DrainStep
    \/ StaticFlush

BufferSpec == Init /\ [][BufferNext]_vars

(***************************************************************************)
(* The listeners: one producer, the flusher and a client that registers    *)
(* both sinks, may remove the first and may drop the second.               *)
(***************************************************************************)
ListenerNext ==
    \/ Log("p1", kDEBUG, 0, "a")
    \/ LogStep("p1")
    \/ DrainStep
    \/ DeliverStep
    \/ StaticFlush
    \/ \E s \in Sinks : CallListener("add", s)
    \/ CallListener("remove", "s1")
    \/ AddListener
    \/ RemoveListener
    \/ DropSink("s2")

ListenerSpec == Init /\ [][ListenerNext]_vars

\* The Notifier keeps firing, the flusher thread is scheduled fairly, and a
\* producer that holds the buffer lock gives it back.  The flusher's step
\* from "common" is enabled whenever it is there, so its fairness is that it
\* does not stay there.
LiveSpec ==
    /\ ListenerSpec
    /\ WF_vars(StaticFlush)
    /\ WF_vars(DrainStep)
    /\ WF_vars(RunStreamWrite)
    /\ WF_vars(RunStreamStale)
    /\ []<>(lpc[Flusher] # "common")
    /\ WF_vars(ProcessCommonLock(Flusher))
    /\ WF_vars(ProcessCommonAppend(Flusher))
    /\ WF_vars(RunStreamErase)
    /\ WF_vars(ProcessCommonAppend("p1"))

(***************************************************************************)
(* The configuration: one thread that logs and reconfigures the Logger,    *)
(* with no flush.                                                          *)
(***************************************************************************)
ConfigLevels == {kDEBUG, kWARNING, kERROR, 42}
ConfigCodeNames == {Null, CStr("-6")}

ConfigNext ==
    \/ \E level \in ConfigLevels : Log("p1", level, 0, "a,b")
    \/ \E codename \in ConfigCodeNames :
          LogName("p1", kERROR, codename, "a,b")
    \/ LogStep("p1")
    \/ \E b \in BOOLEAN : SetStdoutEnable(b)
    \/ \E c \in BOOLEAN : SetNIEnable(c)
    \/ AddLevel(42, "CUSTOM")
    \/ \E f \in Formatters : AddFormatter(kDEBUG, f)

ConfigSpec == Init /\ [][ConfigNext]_vars

(***************************************************************************)
(* Code resolution: one thread that calls Log(level, codename, ...) with   *)
(* the code name repeated as the details, so that the message shows which  *)
(* name its code came from.                                                *)
(***************************************************************************)
ResolveNames ==
    {"-6", "12abc", "0", "Timeout", "ChannelIndexOutOfRange", "NoSuchName"}

ResolveNext ==
    \/ \E name \in ResolveNames : LogName("p1", kDEBUG, CStr(name), name)
    \/ LogName("p1", kDEBUG, Null, "")
    \/ LogStep("p1")

ResolveSpec == Init /\ [][ResolveNext]_vars

(***************************************************************************)
(* Escaping: one thread that logs every details string up to MaxFieldLen   *)
(* over backslash, comma, semicolon and a plain character.                 *)
(***************************************************************************)
FieldAlphabet == {"\\", ",", ";", "a"}

RECURSIVE StringsUpTo(_)
StringsUpTo(n) ==
    IF n = 0 THEN {""}
    ELSE LET shorter == StringsUpTo(n - 1)
         IN  shorter \cup {str \o c : str \in shorter, c \in FieldAlphabet}

FieldStrings == StringsUpTo(MaxFieldLen)

EscapeNext ==
    \/ \E details \in FieldStrings :
           nLogs < MaxFormatCalls /\ Log("p1", kDEBUG, 0, details)
    \/ LogStep("p1")

EscapeSpec == Init /\ [][EscapeNext]_vars

(***************************************************************************)
(* Records: one thread that logs messages whose fields hold separators,    *)
(* at a standard and at a custom level, while levels are being named.      *)
(***************************************************************************)
FieldSamples == {"a", ",;\\"}
RecordLevels == {kDEBUG, 42}
RecordCodes == {2, -6}

RecordNext ==
    \/ \E level \in RecordLevels, code \in RecordCodes,
          details \in FieldSamples, file \in FieldSamples,
          originator \in FieldSamples :
           /\ nLogs < MaxFormatCalls
           /\ LogFrom("p1", level, code, details,
                      [file |-> file, func |-> "f", line |-> 10], originator)
    \/ LogStep("p1")
    \/ AddLevel(kDEBUG, "VERBOSE")
    \/ AddLevel(42, ",;\\")

RecordSpec == Init /\ [][RecordNext]_vars

(***************************************************************************)
(* Flush requests: one producer, the flusher, and a client that calls      *)
(* FlushStream; the periodic trigger is left out, so that a drain can only *)
(* answer a FlushStream call.                                              *)
(***************************************************************************)
FlushNext ==
    \/ Log("p1", kDEBUG, 0, "a")
    \/ LogStep("p1")
    \/ DrainStep
    \/ FlushStream

FlushSpec == Init /\ [][FlushNext]_vars

(***************************************************************************)
(* Shutdown: one producer, the flusher with its periodic trigger, and the  *)
(* destructor.                                                             *)
(***************************************************************************)
ShutdownNext ==
    \/ Log("p1", kDEBUG, 0, "a")
    \/ LogStep("p1")
    \/ DrainStep
    \/ StaticFlush
    \/ DestructorStop
    \/ DestructorJoin

ShutdownSpec == Init /\ [][ShutdownNext]_vars

(***************************************************************************)
(* Console lines: one thread that logs short and long details from files   *)
(* with and without the markers ShortFilename looks for.                   *)
(***************************************************************************)
RECURSIVE Filler(_)
Filler(n) ==
    IF n = 0 THEN ""
    ELSE LET half == Filler(n \div 2)
         IN  half \o half \o (IF n % 2 = 1 THEN "x" ELSE "")

\* With the file a.cpp the line is 27 characters longer than the details:
\* the longest details that fit the buffer, and the shortest that do not.
ConsoleDetails == {"a", Filler(kBufLen - 28), Filler(kBufLen - 27)}
ConsoleFiles == {"a.cpp", "/src/wpilibc/src/a.cpp", "/src/lib/src/a.cpp"}

ConsoleNext ==
    \/ \E details \in ConsoleDetails, file \in ConsoleFiles :
           LogFrom("p1", kDEBUG, 0, details,
                   [file |-> file, func |-> "f", line |-> 10], Originator0)
    \/ LogStep("p1")

ConsoleSpec == Init /\ [][ConsoleNext]_vars

(***************************************************************************)
(* Order: two producers whose details are the number of the call, the      *)
(* flusher, and a client that registers the first sink.                    *)
(***************************************************************************)
OrderNext ==
    \/ \E t \in Producers : Log(t, kDEBUG, 0, IntToString(nLogs + 1))
    \/ \E t \in Producers : LogStep(t)
    \/ DrainStep
    \/ RunStreamWrite
    \/ StaticFlush
    \/ CallListener("add", "s1")
    \/ AddListener

OrderSpec == Init /\ [][OrderNext]_vars

(***************************************************************************)
(* Registries: two producers that log at a standard level, at level 0 and  *)
(* at an unnamed level, with the console on or off, while a client names a *)
(* level and registers a formatter.                                        *)
(***************************************************************************)
RegistryLevels == {0, kDEBUG, 42}

RegistryNext ==
    \/ \E t \in Producers, level \in RegistryLevels : Log(t, level, 0, "a")
    \/ \E t \in Producers : LogStep(t)
    \/ SetStdoutEnable(FALSE)
    \/ AddLevel(42, "CUSTOM")
    \/ \E f \in Formatters : AddFormatter(kDEBUG, f)

RegistrySpec == Init /\ [][RegistryNext]_vars

(***************************************************************************)
(* Stop: one producer, the flusher with its periodic trigger, a client     *)
(* that registers the first sink, and a destructor that runs while the     *)
(* flusher is blocked in its wait, so that every wake after it finds the   *)
(* stop flag set.                                                          *)
(***************************************************************************)
DestructorStopWaiting == fpc = "wait" /\ DestructorStop

StopNext ==
    \/ Log("p1", kDEBUG, 0, "a")
    \/ LogStep("p1")
    \/ DrainStep
    \/ RunStreamWrite
    \/ StaticFlush
    \/ CallListener("add", "s1")
    \/ AddListener
    \/ DestructorStopWaiting
    \/ DestructorJoin

StopSpec == Init /\ [][StopNext]_vars

(***************************************************************************)
(* Properties.                                                             *)
(***************************************************************************)
RECURSIVE Concat(_)
Concat(chunks) ==
    IF chunks = <<>> THEN "" ELSE Head(chunks) \o Concat(Tail(chunks))

\* The text of the lines appended so far.
AppendedText == Concat([i \in 1..Len(appended) |-> appended[i].line])

\* The Log calls that have not returned yet.
InProgress == {t \in LogThreads : lpc[t] # "idle"}

\* The number of backslashes that end just before position i of s.
BackslashesBefore(s, i) ==
    CHOOSE k \in 0..(i - 1) :
        /\ \A j \in (i - k)..(i - 1) : CharAt(s, j) = "\\"
        /\ (k = i - 1 \/ CharAt(s, i - k - 1) # "\\")

\* The number of entry terminators in s: the ";\n" that are not escaped.
Terminators(s) ==
    Cardinality({i \in 1..(Len(s) - 1) :
                    /\ MatchAt(s, ";\n", i)
                    /\ BackslashesBefore(s, i) % 2 = 0})

\* C1: every Log call appends exactly one entry to the pending buffer: the
\* calls that returned are as many as the appends, each append added one
\* non-empty line, and a call in progress has appended nothing yet, whatever
\* the level, the overload and the toggles.
C1_OneEntryPerLog ==
    /\ Len(appended) + Cardinality(InProgress) = nLogs + nStale
    /\ \A i \in 1..Len(appended) : Len(appended[i].line) > 0
    /\ Len(m_pending) = Len(AppendedText)

\* C1: two calls have returned, one that took the hardware path and one that
\* took neither path, and the buffer holds two entries.
C1_Witness ==
    /\ Len(appended) = 2
    /\ InProgress = {}
    /\ \E i, j \in 1..2 :
        /\ appended[i].hw = 1
        /\ appended[j].hw = 0 /\ appended[j].con = ""

\* C2: once every Log call has returned and a flush cycle has drained the
\* buffer, the text drained so far is the appended lines, one after the
\* other, and holds as many terminators as there were calls.
C2_DrainedEntries ==
    (InProgress = {} /\ Len(m_pending) = 0 /\ fpc # "clear") =>
        /\ Concat(drained) = AppendedText
        /\ Terminators(Concat(drained)) = nLogs

\* C2: one flush cycle has drained the entries of two producers.
C2_Witness ==
    /\ InProgress = {} /\ Len(m_pending) = 0
    /\ Len(drained) = 1
    /\ Len(appended) = 2
    /\ appended[1].thread # appended[2].thread

\* The length of the text up to the end of the k-th appended line, and of
\* the text up to the end of the c-th drained chunk.
AppendedUpTo(k) == Len(Concat([i \in 1..k |-> appended[i].line]))
DrainedUpTo(c) == Len(Concat(SubSeq(drained, 1, c)))

\* The k-th appended line is in the buffer, not drained yet.
InBuffer(k) ==
    /\ k <= Len(appended)
    /\ AppendedUpTo(k) > DrainedUpTo(Len(drained))

\* Sink s was written the drained chunk that holds the k-th appended line.
Got(s, k) ==
    /\ k <= Len(appended)
    /\ \E c \in recv[s] :
        /\ DrainedUpTo(c) >= AppendedUpTo(k)
        /\ DrainedUpTo(c - 1) < AppendedUpTo(k)

MaxEntries == MaxLogs + MaxListenerCalls

\* C3: with the flush trigger firing again and again and the threads
\* scheduled fairly, an entry in the pending buffer is eventually drained and
\* written to a sink that is registered and alive, unless the sink is removed
\* or dropped before the flusher writes to it.
C3_EventuallyWritten ==
    \A k \in 1..MaxEntries, s \in Sinks :
        (InBuffer(k) /\ s \in m_listeners /\ alive[s])
            ~> (Got(s, k) \/ s \notin m_listeners \/ ~alive[s])

\* C3: a registered, live sink has been written the chunk with the first
\* entry.
C3_Witness ==
    \E s \in Sinks : Got(s, 1) /\ s \in m_listeners /\ alive[s]

\* The flusher is past its loop over the copied listeners (line 184), the
\* listener lock still held.
CycleDone == fpc = "iter" /\ listeners = <<>>

\* C4: when a flush cycle is done, no sink that was dead when the cycle
\* drained the buffer is in m_listeners, and every sink the cycle copied that
\* is still alive is.
C4_DeadEvicted ==
    CycleDone =>
        /\ \A s \in cycle.dead : s \notin m_listeners
        /\ \A s \in cycle.snap : alive[s] => s \in m_listeners

\* C4: a cycle is done that copied a live sink and a dead one.
C4_Witness ==
    /\ CycleDone
    /\ \E s \in cycle.snap : s \in cycle.dead
    /\ \E s \in cycle.snap : alive[s] /\ s \in m_listeners

\* C5: a thread in Log holds the buffer lock only at the append and never
\* holds the listener lock; the flusher holds the buffer lock only from
\* line 166 to line 170, or as a caller of Log, and not while it writes to a
\* sink.
C5_ShortBufferLock ==
    /\ \A t \in Producers :
        /\ m_queueMutex = t => lpc[t] = "append"
        /\ m_streamMutex # t
    /\ m_queueMutex = Flusher =>
        \/ fpc \in {"check", "clear"}
        \/ fpc = "stale" /\ lpc[Flusher] = "append"
    /\ fpc \in {"copy", "iter"} => m_queueMutex # Flusher

\* C5: a producer appends while the flusher is about to write to a sink.
C5_Witness ==
    /\ fpc = "iter" /\ listeners # <<>>
    /\ lpc["p1"] = "append"
    /\ m_queueMutex = "p1"

\* C6, as the specification states it: the flusher does not hold the
\* listener lock during the loop that writes to the sinks.
C6_LockOnlyForCopy ==
    fpc \in {"iter", "stale"} => m_streamMutex # Flusher

\* C6, as the code has it: the flusher holds the listener lock from its wake
\* to the end of the loop over the copied listeners, so that no AddListener
\* or RemoveListener call gets the lock in between.
C6_LockThroughCycle ==
    fpc \in {"lockQueue", "check", "clear", "copy", "iter", "stale"} =>
        m_streamMutex = Flusher

\* C6: an AddListener or RemoveListener call is issued and waits while the
\* flusher is about to write to a sink.
C6_Witness ==
    /\ fpc = "iter" /\ listeners # <<>> /\ alive[Head(listeners)]
    /\ call.op # "none"
    /\ m_streamMutex = Flusher

\* The step in which thread t enters Log and takes lines 60-68.
DispatchStep(t) == lpc[t] = "idle" /\ lpc'[t] # "idle"

\* The HALSendError call the specification describes for message m.
ReportOf(m) ==
    [isError |-> (m.level = kNIError), code |-> m.code, details |-> m.details,
     location |-> LocationString(m.location), stacktrace |-> m.stacktrace]

\* C7: a Log call makes exactly one HALSendError call if the level is
\* kNIWarning or kNIError and the hardware channel is enabled, and none
\* otherwise; the call carries isError, the code, the details, the location
\* string and the stack trace of the message; no later step of the call adds
\* another.
C7_HardwareCall ==
    [][\A t \in LogThreads :
        /\ DispatchStep(t) =>
            hwSent'[t] = IF IsNILevel(msg'[t].level) /\ m_useNI
                         THEN <<ReportOf(msg'[t])>> ELSE <<>>
        /\ (~DispatchStep(t) /\ hwSent'[t] # hwSent[t]) => hwSent'[t] = <<>>
      ]_vars

\* C7: a Log call has called HALSendError with a location that is not the
\* location string of its message.
C7_Witness ==
    \E t \in LogThreads :
        /\ Len(hwSent[t]) = 1
        /\ hwSent[t][1].location # LocationString(msg[t].location)
        /\ hwSent[t][1].details = msg[t].details

\* C8: a Log call writes a line to std::cout exactly if its level is neither
\* kNIWarning nor kNIError and the console path is enabled: the line of the
\* level's formatter, or of the default formatter; no later step of the call
\* writes to std::cout.
C8_ConsoleLine ==
    [][\A t \in LogThreads :
        /\ DispatchStep(t) =>
            /\ (Len(conOut'[t]) > 0) <=>
                   (~IsNILevel(msg'[t].level) /\ m_usestdout)
            /\ Len(conOut'[t]) > 0 =>
                   conOut'[t] =
                       ProcessLog(m_levels, m_levelFormats, msg'[t]).out
        /\ (~DispatchStep(t) /\ conOut'[t] # conOut[t]) => conOut'[t] = ""
      ]_vars

\* C8: one call has written its line to std::cout, and a call at a hardware
\* level, made with the hardware channel disabled and the console path
\* enabled, has written nothing.
C8_Witness ==
    /\ \E i \in 1..Len(appended) : Len(appended[i].con) > 0
    /\ lpc["p1"] = "common"
    /\ IsNILevel(msg["p1"].level)
    /\ ~m_useNI /\ m_usestdout
    /\ conOut["p1"] = "" /\ hwSent["p1"] = <<>>

\* The levels of enum Level, and a level a client may add.
GenericLevels == {kDEBUG, kWARNING, kERROR, 42}

\* C9, as the specification states it: a Log call at a generic level never
\* calls HALSendError.
C9_GenericNeverHardware ==
    [][\A t \in LogThreads :
        (DispatchStep(t) /\ msg'[t].level \in GenericLevels) =>
            hwSent'[t] = <<>>
      ]_vars

\* C9, as the code has it: kNIWarning is kWARNING and kNIError is kERROR, so
\* a Log call at kWARNING or kERROR calls HALSendError when the hardware
\* channel is enabled; a call at kDEBUG or at a custom level never does.
C9_WarningAndErrorAreHardware ==
    [][\A t \in LogThreads :
        DispatchStep(t) =>
            ((Len(hwSent'[t]) > 0) <=>
                 (msg'[t].level \in {kWARNING, kERROR} /\ m_useNI))
      ]_vars

\* C9: a call at kWARNING has called HALSendError, and a call at the custom
\* level has not.
C9_Witness ==
    /\ Len(appended) = 2
    /\ \E i, j \in 1..2 :
        /\ appended[i].level = kWARNING /\ appended[i].hw = 1
        /\ appended[j].level = 42 /\ appended[j].hw = 0

\* C10: the Logger and its twin, given the same calls with opposite
\* SetStdoutEnable settings, have the same pending buffer, and a call in
\* progress is about to append the same line to both.
C10_SameBuffer ==
    /\ twin.pending = m_pending
    /\ \A t \in LogThreads :
        lpc[t] \in {"lock", "append"} => twin.formatted[t] = formatted[t]

\* C10: two calls at kDEBUG have returned, the first made with the console
\* path enabled and the second with it disabled.
C10_Witness ==
    /\ Len(appended) = 2
    /\ appended[1].level = kDEBUG /\ Len(appended[1].con) > 0
    /\ appended[2].level = kDEBUG /\ appended[2].con = ""
    /\ Len(m_pending) > 0

\* The code the specification gives a code name: the integer it parses as,
\* if that is not 0, and else the code registered under the name, 0 if there
\* is none.
CodeOfName(name) ==
    IF Atoi(name) # 0 THEN Atoi(name)
    ELSE IF name \in DOMAIN m_names THEN m_names[name] ELSE 0

\* C11: in a Log call by code name (the name is the details of the message,
\* and a missing name has empty details), the code of the message is the
\* integer the name parses as, else the code registered under the name, else
\* 0.
C11_ResolvedCode ==
    \A t \in Producers :
        lpc[t] # "idle" => msg[t].code = CodeOfName(msg[t].details)

\* C11: a Log call with the registered name Timeout has built a message with
\* code 0.
C11_Witness ==
    /\ lpc["p1"] # "idle"
    /\ msg["p1"].details = "Timeout"
    /\ CodeOfName("Timeout") = -6
    /\ msg["p1"].code = 0

\* The positions of s that hold the character c with an even number of
\* backslashes before it: the occurrences of c that are not escaped.
UnescapedAt(s, c) ==
    {i \in 1..Len(s) : CharAt(s, i) = c /\ BackslashesBefore(s, i) % 2 = 0}

\* The last field of a parseable record: what stands between its last
\* unescaped comma and the ";\n" that ends it.
LastField(record) ==
    LET commas == UnescapedAt(record, ",")
        last == CHOOSE i \in commas : \A j \in commas : j <= i
    IN  SubSeq(record, last + 1, Len(record) - 2)

\* The three substitutions of FormatParseable undone in reverse order.
Unescape(str) ==
    FindAndReplace(FindAndReplace(FindAndReplace(str, "\\;", ";"),
                                  "\\,", ","),
                   "\\\\", "\\")

\* C12: the details field of the parseable record a Log call has built,
\* unescaped by undoing the three substitutions in reverse order, is the
\* details string of the message, whatever backslashes, commas and semicolons
\* it holds.
C12_RoundTrip ==
    \A t \in Producers :
        lpc[t] \in {"lock", "append"} =>
            /\ UnescapedAt(formatted[t], ",") # {}
            /\ Unescape(LastField(formatted[t])) = msg[t].details

\* C12: a record has been built for a details string that holds a backslash,
\* a comma and a semicolon.
C12_Witness ==
    /\ lpc["p1"] = "append"
    /\ msg["p1"].details = "\\,;"
    /\ LastField(formatted["p1"]) = "\\\\\\,\\;"

\* The position of the k-th unescaped comma of a record; 0 for k = 0, and
\* the position of the closing semicolon for k = 9.
CommaAt(record, k) ==
    LET commas == UnescapedAt(record, ",")
    IN  IF k = 0 THEN 0
        ELSE IF k = 9 THEN Len(record) - 1
        ELSE CHOOSE i \in commas : Cardinality({j \in commas : j <= i}) = k

\* The k-th field of a record with 8 unescaped commas, unescaped.
FieldOf(record, k) ==
    Unescape(SubSeq(record, CommaAt(record, k - 1) + 1,
                    CommaAt(record, k) - 1))

\* The 9 fields the specification gives the record of message m when the
\* level names are `levels`.
FieldsOf(levels, m) ==
    <<IntToString(m.level),
      IF m.level \in DOMAIN levels THEN levels[m.level] ELSE "",
      IntToString(m.code),
      Get(m.code),
      m.location.file \o ":" \o m.location.func \o ":"
          \o IntToString(m.location.line),
      IntToString(m.timestamp),
      m.stacktrace,
      m.originatingObject,
      m.details>>

FlushServed ==
    DrainedUpTo(Len(drained)) >= AppendedUpTo(flushReq)

\* C14: with FlushStream the only wake, the flusher is never blocked in its
\* wait while entries that were pending at a FlushStream call are still in
\* the buffer: the call is answered by a drain of its own.
C14_FlushDrains ==
    (fpc = "wait" /\ flushReq > 0) => FlushServed

\* C14: FlushStream was called with an entry pending while the flusher was
\* not waiting; the flusher has since blocked in its wait and the entry is
\* still in the buffer.
C14_Witness ==
    /\ fpc = "wait"
    /\ flushReq = 1
    /\ InBuffer(1)
    /\ Len(m_pending) > 0
    /\ drained = <<>>

\* C15: the step of the destructor that sets the stop flag also signals the
\* wait condition, so a flusher blocked in its wait is woken by it; and once
\* the destructor has returned the flusher has terminated.
C15_ShutdownSignals ==
    [][/\ (dpc = "alive" /\ dpc' = "join") =>
              /\ ~m_runThread'
              /\ fpc = "wait" => fpc' = "woken"
       /\ dpc' = "destroyed" => fpc' = "exit"]_vars

\* C15: the destructor has set the stop flag and waits in join while the
\* flusher is still blocked in its wait.
C15_Witness ==
    /\ dpc = "join"
    /\ ~m_runThread
    /\ fpc = "wait"

\* C16: no step renames or removes a level: every level that has a name
\* before the step has the same name after it, the seeded 1:DEBUG, 2:WARNING
\* and 3:ERROR included.
C16_LevelsKept ==
    [][\A level \in DOMAIN m_levels :
          /\ level \in DOMAIN m_levels'
          /\ m_levels'[level] = m_levels[level]]_vars

\* C16: after AddLevel(kDEBUG, "VERBOSE") the seeded level 1 is no longer
\* named DEBUG.
C16_Witness ==
    /\ InitLevels[kDEBUG] = "DEBUG"
    /\ m_levels[kDEBUG] = "VERBOSE"
    /\ m_levels[kWARNING] = "WARNING"
    /\ m_levels[kERROR] = "ERROR"

\* The step in which thread t formats the buffer entry of its message.
FormatStep(t) == lpc[t] = "common" /\ lpc'[t] = "lock"

\* C17: a Log call at a level that has a registered formatter writes the
\* formatter's output as its console line, if it writes one, and as its
\* buffer entry; a call at a level with no formatter writes the default
\* console format and the parseable record.
C17_FormatterOverrides ==
    [][\A t \in Producers :
        /\ (DispatchStep(t) /\ Len(conOut'[t]) > 0) =>
               conOut'[t] =
                   IF msg'[t].level \in DOMAIN m_levelFormats
                   THEN ApplyFormatter(m_levelFormats[msg'[t].level], msg'[t])
                   ELSE FormatDefault(m_levels, msg'[t])
        /\ FormatStep(t) =>
               formatted'[t] =
                   IF msg[t].level \in DOMAIN m_levelFormats
                   THEN ApplyFormatter(m_levelFormats[msg[t].level], msg[t])
                   ELSE FormatParseable(m_levels, msg[t])
      ]_vars

\* C17: a call at kDEBUG, which has a formatter, has written the formatter's
\* output to the console and made it its buffer entry, after a call at
\* another level appended a parseable record.
C17_Witness ==
    /\ lpc["p1"] = "lock"
    /\ msg["p1"].level = kDEBUG
    /\ kDEBUG \in DOMAIN m_levelFormats
    /\ conOut["p1"] = ApplyFormatter(m_levelFormats[kDEBUG], msg["p1"])
    /\ formatted["p1"] = conOut["p1"]
    /\ formatted["p1"] # FormatParseable(m_levels, msg["p1"])
    /\ \E i \in 1..Len(appended) :
           /\ appended[i].level = 42
           /\ Cardinality(UnescapedAt(appended[i].line, ",")) = 8
           /\ Len(appended[i].con) > 0

\* Level `level` has no name: m_levels has no entry for it, or the empty
\* name that formatting an earlier message at that level left there.
Unnamed(level) == level \notin DOMAIN m_levels \/ m_levels[level] = ""

\* C18: a Log call at a level that has no name and no formatter goes through
\* both formatting steps; its console line, if it writes one, is the default
\* format with an empty level name, and its buffer entry is the parseable
\* record (8 unescaped commas) with an empty field 2 and the numeric level as
\* field 1.
C18_UnknownLevel ==
    [][\A t \in Producers :
        /\ (DispatchStep(t) /\ Unnamed(msg'[t].level)
                /\ msg'[t].level \notin DOMAIN m_levelFormats) =>
               /\ lpc'[t] = "common"
               /\ msg'[t].level \in DOMAIN m_levels' =>
                      m_levels'[msg'[t].level] = ""
               /\ Len(conOut'[t]) > 0 =>
                      conOut'[t] =
                          "[]: From "
                              \o ShortFilename(LocationString(msg'[t].location))
                              \o ": " \o msg'[t].details \o "\n"
        /\ (FormatStep(t) /\ Unnamed(msg[t].level)
                /\ msg[t].level \notin DOMAIN m_levelFormats) =>
               /\ Cardinality(UnescapedAt(formatted'[t], ",")) = 8
               /\ FieldOf(formatted'[t], 1) = IntToString(msg[t].level)
               /\ FieldOf(formatted'[t], 2) = ""
               /\ m_levels'[msg[t].level] = ""
      ]_vars

\* C18: a call at level 42, which has no name, has written its console line
\* and built its record.
C18_Witness ==
    /\ lpc["p1"] = "lock"
    /\ msg["p1"].level = 42
    /\ m_levels[42] = ""
    /\ conOut["p1"] = "[]: From a.cpp:f:10: a,b\n"
    /\ FieldOf(formatted["p1"], 1) = "42"
    /\ FieldOf(formatted["p1"], 2) = ""
    /\ FieldOf(formatted["p1"], 9) = "a,b"

\* The short file of the specification: the location string from its first
\* "wpilib" on, else from its last "src" on, else whole.
ShortFileOf(location) ==
    LET roots == {i \in 1..Len(location) : MatchAt(location, "wpilib", i)}
        srcs == {i \in 1..Len(location) : MatchAt(location, "src", i)}
        start == IF roots # {}
                 THEN CHOOSE i \in roots : \A j \in roots : i <= j
                 ELSE IF srcs # {}
                      THEN CHOOSE i \in srcs : \A j \in srcs : j <= i
                      ELSE 1
    IN  SubSeq(location, start, Len(location))

\* C19: the console line a Log call writes with the default formatter is
\* "[" level name "]: From " short file ": " details and a newline, whatever
\* the length of the details.
C19_DefaultLine ==
    [][\A t \in Producers :
        (DispatchStep(t) /\ Len(conOut'[t]) > 0
             /\ msg'[t].level \notin DOMAIN m_levelFormats) =>
            conOut'[t] =
                "[" \o m_levels[msg'[t].level] \o "]: From "
                    \o ShortFileOf(msg'[t].location.file \o ":"
                                       \o msg'[t].location.func \o ":"
                                       \o IntToString(msg'[t].location.line))
                    \o ": " \o msg'[t].details \o "\n"
      ]_vars

\* C19: a call whose line would be kBufLen characters long has written the
\* kBufLen - 1 characters that fit the buffer, without the newline.
C19_Witness ==
    /\ lpc["p1"] = "common"
    /\ msg["p1"].location.file = "a.cpp"
    /\ Len(msg["p1"].details) = kBufLen - 27
    /\ Len(conOut["p1"]) = kBufLen - 1
    /\ CharAt(conOut["p1"], kBufLen - 1) = "x"

\* The step in which the flusher, as the caller of Log at line 181, appends
\* the stale-listener warning.
StaleAppendStep == lpc[Flusher] = "append" /\ lpc'[Flusher] = "idle"

\* C20: the flusher's Log call for a dead listener is made without the buffer
\* lock held and always returns, so the flusher goes on with its loop; the
\* append of the warning leaves the chunk being written, the chunks drained so
\* far and the sinks as they are and puts the warning at the end of the
\* pending buffer, beyond everything drained so far, so the warning can only
\* be written in a later cycle.
C20_StaleWarningNextCycle ==
    /\ [][/\ (fpc = "iter" /\ fpc' = "stale") => m_queueMutex # Flusher
          /\ StaleAppendStep =>
              /\ fpc = "stale"
              /\ appended'[Len(appended')].line = formatted[Flusher]
              /\ m_pending' = m_pending \o formatted[Flusher]
              /\ pending' = pending
              /\ drained' = drained
              /\ sinkText' = sinkText
              /\ Len(AppendedText') > DrainedUpTo(Len(drained))]_vars
    /\ (fpc = "stale") ~> (fpc = "iter")

\* C20: a live sink has been written the stale-listener warning, in a chunk
\* that is not the first one.
C20_Witness ==
    \E k \in 1..Len(appended), s \in Sinks :
        /\ appended[k].thread = Flusher
        /\ appended[k].level = kWARNING
        /\ alive[s]
        /\ Got(s, k)
        /\ \A c \in recv[s] : DrainedUpTo(c) >= AppendedUpTo(k) => c >= 2

\* The flusher finds the buffer empty at line 167.
EmptyWake == fpc = "check" /\ Len(m_pending) = 0

\* C21: the step of a woken flusher that finds the pending buffer empty
\* writes to no sink, drains nothing, leaves m_pending empty and m_listeners
\* as it is, releases both locks and takes the flusher to the top of its
\* loop; from there the flusher's steps up to its wait change nothing but its
\* own position.
C21_EmptyWakeNoOp ==
    [][/\ EmptyWake =>
              (fpc' # fpc =>
                  /\ fpc' = "loop"
                  /\ m_queueMutex' = None /\ m_streamMutex' = None
                  /\ m_pending' = "" /\ m_listeners' = m_listeners
                  /\ sinkText' = sinkText /\ recv' = recv
                  /\ drained' = drained /\ pending' = pending)
       /\ (fpc = "loop" /\ fpc' # fpc) =>
              /\ fpc' = IF m_runThread THEN "lockStream" ELSE "exit"
              /\ UNCHANGED <<m_pending, m_listeners, locks, sinks, drained>>
       /\ (fpc = "lockStream" /\ fpc' # fpc) =>
              /\ fpc' = "wait"
              /\ UNCHANGED <<m_pending, m_listeners, locks, sinks, drained>>
      ]_vars

\* C21: after a first drain reached a live listener, the flusher was woken
\* again and finds the buffer empty.
C21_Witness ==
    /\ EmptyWake
    /\ Len(drained) >= 1
    /\ \E s \in m_listeners : alive[s] /\ recv[s] # {}
    /\ m_streamMutex = Flusher /\ m_queueMutex = Flusher

\* C22: every step that changes m_pending either appends a non-empty line
\* at its end, taken by the thread that holds the buffer lock, or is the
\* flusher's clear, taken with the buffer lock held since the copy; the clear
\* empties the buffer and the chunk it drains is the whole content the buffer
\* has at that moment, so no append falls between the copy and the clear.
C22_GrowThenReset ==
    [][/\ m_pending' # m_pending =>
            \/ \E t \in LogThreads :
                   /\ lpc[t] = "append" /\ m_queueMutex = t
                   /\ Len(formatted[t]) > 0
                   /\ m_pending' = m_pending \o formatted[t]
                   /\ drained' = drained
            \/ /\ fpc = "clear" /\ m_queueMutex = Flusher
               /\ m_pending' = ""
               /\ pending = m_pending
               /\ drained' = Append(drained, m_pending)
       /\ fpc = "clear" => (fpc' # fpc => m_pending' = "")
       /\ (fpc = "check" /\ fpc' = "clear") =>
              /\ m_queueMutex = Flusher /\ m_queueMutex' = Flusher
              /\ pending' = m_pending
      ]_vars

\* C22: the flusher has copied a buffer that holds the entry of one producer
\* and is about to clear it, while the other producer waits for the buffer
\* lock with its line formatted.
C22_Witness ==
    /\ fpc = "clear"
    /\ m_queueMutex = Flusher
    /\ pending = m_pending
    /\ Len(pending) > 0
    /\ \E t \in Producers :
           /\ lpc[t] = "lock" /\ Len(formatted[t]) > 0
           /\ appended[1].thread # t

\* The number of the Log call that appended the k-th line: the details of
\* the line, as OrderSpec writes them.
CallOf(k) == Atoi(LastField(appended[k].line))

\* The chunks sink s was written, one after the other in drain order.
RECURSIVE ChunksUpTo(_, _)
ChunksUpTo(s, c) ==
    IF c = 0 THEN ""
    ELSE ChunksUpTo(s, c - 1) \o (IF c \in recv[s] THEN drained[c] ELSE "")

\* C23: while a thread holds the buffer lock for its append no other line
\* enters the buffer, so the lines are in the buffer in the order in which
\* their appends got the lock: the buffer is the end of the text of the
\* appended lines, and the drained chunks are its beginning; the lines of one
\* thread are in the order of its calls; and what a listener has been written
\* is the chunks it was given in drain order.
C23_LockOrder ==
    /\ [][\A t \in LogThreads :
            (lpc[t] = "append" /\ m_pending' # m_pending) =>
                /\ m_queueMutex = t
                /\ lpc'[t] = "idle"
                /\ m_pending' = m_pending \o formatted[t]
                /\ appended'[Len(appended')].line = formatted[t]]_vars
    /\ [](/\ fpc # "clear" => AppendedText = Concat(drained) \o m_pending
          /\ \A i, j \in 1..Len(appended) :
                 (i < j /\ appended[i].thread = appended[j].thread) =>
                     CallOf(i) < CallOf(j)
          /\ \A s \in Sinks : sinkText[s] = ChunksUpTo(s, Len(drained)))

\* C23: the sink has been written one chunk with the lines of both
\* producers, the line of the second call before the line of the first: the
\* thread that called later got the buffer lock first.
C23_Witness ==
    /\ Len(appended) = 2
    /\ appended[1].thread # appended[2].thread
    /\ CallOf(1) = 2 /\ CallOf(2) = 1
    /\ Len(drained) = 1
    /\ drained[1] = appended[1].line \o appended[2].line
    /\ sinkText["s1"] = drained[1]

\* C24: m_listeners changes only in a step of AddListener or RemoveListener,
\* which takes the listener lock for the step and so needs it free, or in the
\* flusher's erase, taken with the listener lock held; the flusher copies the
\* set and writes to a sink only with the listener lock held, and holds it
\* from the copy to the end of its loop, so no client call changes the set in
\* between.
C24_ListenerLock ==
    [][/\ m_listeners' # m_listeners =>
            \/ /\ call.op \in {"add", "remove"} /\ call' = NoCall
               /\ m_streamMutex = None
               /\ fpc \notin {"lockQueue", "check", "clear", "copy", "iter",
                              "stale"}
            \/ /\ fpc = "stale" /\ fpc' = "iter"
               /\ m_streamMutex = Flusher
               /\ call' = call
       /\ (fpc = "copy" /\ fpc' = "iter") => m_streamMutex = Flusher
       /\ sinkText' # sinkText => m_streamMutex = Flusher
       /\ (m_streamMutex = Flusher /\ call' # call) => call.op = "none"
      ]_vars

\* C24: an AddListener call is waiting for the listener lock while the
\* flusher, which holds it, is about to erase a dead listener from the set.
C24_Witness ==
    /\ call.op = "add"
    /\ call.sink \notin m_listeners
    /\ m_streamMutex = Flusher
    /\ fpc = "stale" /\ lpc[Flusher] = "idle"
    /\ Head(listeners) \in m_listeners

\* Thread t is in Log between lines 67 and 99, holding no lock: its next
\* step reads m_levelFormats and m_levels.
AboutToFormat(t) == lpc[t] = "common"

\* C25: no step writes m_levels or m_levelFormats while another thread is in
\* Log about to read them with no lock held.
C25_RegistriesNotShared ==
    [][(m_levels' # m_levels \/ m_levelFormats' # m_levelFormats) =>
          \A t \in LogThreads : AboutToFormat(t) => ~AboutToFormat(t)']_vars

\* C25: two threads are in Log with no lock held; the next step of one
\* inserts level 42 into m_levels, the next step of the other reads m_levels.
C25_Witness ==
    /\ AboutToFormat("p1") /\ AboutToFormat("p2")
    /\ msg["p1"].level = 42
    /\ 42 \notin DOMAIN m_levels
    /\ msg["p1"].level \notin DOMAIN m_levelFormats
    /\ msg["p2"].level \notin DOMAIN m_levelFormats
    /\ m_queueMutex = None /\ m_streamMutex = None

\* C26: a step that gives m_levels a new entry is not a step of a Log call:
\* only AddLevel adds levels, level 0 included.
C26_NoAutoPopulate ==
    [][DOMAIN m_levels' # DOMAIN m_levels => lpc' = lpc]_vars

\* C26: a Log call at level 0 has left an entry for level 0, with an empty
\* name, in m_levels, where no AddLevel call named level 0.
C26_Witness ==
    /\ lpc["p1"] = "lock"
    /\ msg["p1"].level = 0
    /\ 0 \notin DOMAIN InitLevels
    /\ 0 \in DOMAIN m_levels
    /\ m_levels[0] = ""
    /\ FieldOf(formatted["p1"], 1) = "0"
    /\ FieldOf(formatted["p1"], 2) = ""

\* C27, as the specification states it: once the stop flag is set (in
\* StopSpec the flusher is in its wait at that moment, so it is woken with
\* the flag set) the flusher drains nothing and writes to no sink.
C27_NoCycleAfterStop ==
    [][~m_runThread => (drained' = drained /\ sinkText' = sinkText)]_vars

\* C27, as the code has it: the flusher reads the stop flag at the top of its
\* loop only.  A wake goes on to the buffer whatever the flag is; the flusher
\* stops only from the top of the loop, which it reaches once the cycle of
\* the wake is over, and it stops there if the flag is set; a flusher that
\* stopped drains nothing, writes to no sink and stays stopped.
C27_StopAtLoopTop ==
    [][/\ (fpc = "woken" /\ fpc' # fpc) => fpc' = "lockQueue"
       /\ (fpc = "loop" /\ fpc' # fpc) =>
              fpc' = IF m_runThread THEN "lockStream" ELSE "exit"
       /\ (fpc' = "exit" /\ fpc # "exit") => (fpc = "loop" /\ ~m_runThread)
       /\ fpc = "exit" =>
              /\ fpc' = "exit"
              /\ drained' = drained /\ sinkText' = sinkText
              /\ m_listeners' = m_listeners
       /\ dpc' = "destroyed" => fpc' = "exit"
      ]_vars

\* C27: the destructor set the stop flag while the flusher was waiting with
\* an entry in the buffer; the flusher was woken, drained the entry, wrote it
\* to the sink and then stopped.
C27_Witness ==
    /\ ~m_runThread
    /\ fpc = "exit"
    /\ Len(drained) = 1
    /\ recv["s1"] = {1}
    /\ sinkText["s1"] = drained[1]
    /\ Len(appended) = 1
    /\ nLogs = 1

\* The thread that holds the buffer lock can take the step that gives it
\* back.
QueueHolderRuns ==
    \/ \E h \in LogThreads : m_queueMutex = h /\ ENABLED ProcessCommonAppend(h)
    \/ m_queueMutex = Flusher /\ ENABLED (RunStreamCheck \/ RunStreamClear)

\* Thread t, waiting for the buffer lock in Log, can get it, or its holder can
\* run.
LogCanLock(t) == ENABLED ProcessCommonLock(t) \/ QueueHolderRuns

\* The flusher, holding the listener lock, can take a step, or waits for the
\* buffer lock whose holder can run.
StreamHolderRuns ==
    /\ m_streamMutex = Flusher
    /\ \/ fpc \in {"check", "clear", "copy", "iter"}
       \/ fpc = "lockQueue" /\ (ENABLED RunStreamLockQueue \/ QueueHolderRuns)
       \/ fpc = "stale" /\ lpc[Flusher] \in {"idle", "common", "append"}
       \/ fpc = "stale" /\ lpc[Flusher] = "lock" /\ LogCanLock(Flusher)

\* C28: the listener lock is taken only by a thread that does not hold the
\* buffer lock; a producer takes the buffer lock holding no other lock and the
\* flusher takes it with the listener lock held; and no thread waits for a
\* lock for ever: whenever a thread is at the acquisition of a lock, it can
\* take it or the holder of the lock can run.
C28_NoDeadlock ==
    /\ [][/\ (m_streamMutex' # m_streamMutex /\ m_streamMutex = None) =>
                 (m_streamMutex' = Flusher /\ m_queueMutex # Flusher)
          /\ (call.op # "none" /\ call' = NoCall) =>
                 (m_streamMutex = None /\ m_queueMutex # "client")
          /\ \A t \in Producers :
                 (m_queueMutex' = t /\ m_queueMutex # t) => m_streamMutex # t
          /\ (m_queueMutex' = Flusher /\ m_queueMutex # Flusher) =>
                 m_streamMutex = Flusher]_vars
    /\ [](/\ \A t \in LogThreads : lpc[t] = "lock" => LogCanLock(t)
          /\ fpc = "lockQueue" =>
                 (ENABLED RunStreamLockQueue \/ QueueHolderRuns)
          /\ fpc = "lockStream" => ENABLED RunStreamWait
          /\ fpc = "woken" => ENABLED RunStreamWake
          /\ call.op # "none" =>
                 (ENABLED (AddListener \/ RemoveListener) \/ StreamHolderRuns))

\* C28: the flusher, holding the listener lock, is in its stale-listener Log
\* call and waits for the buffer lock, which a producer holds, while a client
\* call waits for the listener lock.
C28_Witness ==
    /\ fpc = "stale" /\ lpc[Flusher] = "lock"
    /\ m_streamMutex = Flusher
    /\ m_queueMutex = "p1" /\ lpc["p1"] = "append"
    /\ call.op # "none"

\* C29: a step that writes to a sink is taken with the sink in m_listeners,
\* and no RemoveListener call returns during a flush cycle; so from the return
\* of RemoveListener(sink) on, until the sink is added again, no step writes
\* to it, whether or not a cycle was in progress when the call was made.
C29_NoWriteAfterRemove ==
    [][/\ \A s \in Sinks :
              (sinkText'[s] # sinkText[s] \/ recv'[s] # recv[s]) =>
                  (s \in m_listeners /\ s \in m_listeners')
       /\ (call.op = "remove" /\ call' = NoCall) =>
              (fpc \in {"loop", "lockStream", "wait", "woken", "exit"}
               /\ call.sink \notin m_listeners')]_vars

\* C29: the first cycle wrote its chunk to the sink, the sink was then
\* removed, and the second cycle is done and did not write to it, the sink
\* being alive all along.
C29_Witness ==
    /\ CycleDone /\ Len(drained) = 2
    /\ alive["s1"] /\ "s1" \notin m_listeners
    /\ recv["s1"] = {1}
    /\ sinkText["s1"] = drained[1]
    /\ call = NoCall

\* The drained chunks end where an appended line ends: no line is split
\* across two drains, and no chunk is empty.
WholeEntries ==
    \A c \in 1..Len(drained) :
        /\ Len(drained[c]) > 0
        /\ \E k \in 1..Len(appended) : DrainedUpTo(c) = AppendedUpTo(k)

\* C30: the drained chunks, in drain order, followed by the pending buffer
\* are the appended lines in append order, and every chunk is a run of whole
\* lines; a step that writes to a sink writes it the whole chunk of the
\* current cycle, which the sink has not been written before; and when a
\* cycle is done every sink it copied that is alive has been written that
\* chunk, so all of them the same text.
C30_ChunksPartitionEntries ==
    /\ [](/\ Concat(drained) \o m_pending = AppendedText
          /\ WholeEntries
          /\ CycleDone =>
                \A s \in cycle.snap : alive[s] => Len(drained) \in recv[s])
    /\ [][\A s \in Sinks :
            (sinkText'[s] # sinkText[s] \/ recv'[s] # recv[s]) =>
                /\ Len(drained) \notin recv[s]
                /\ recv'[s] = recv[s] \cup {Len(drained)}
                /\ sinkText'[s] = sinkText[s] \o drained[Len(drained)]
                /\ drained' = drained]_vars

\* C30: two cycles have drained one entry each, and both sinks, registered
\* and alive, have been written the two chunks, which together are the
\* appended lines.
C30_Witness ==
    /\ CycleDone /\ Len(drained) = 2 /\ Len(appended) = 2
    /\ m_pending = ""
    /\ \A s \in Sinks :
           /\ s \in m_listeners /\ alive[s]
           /\ recv[s] = {1, 2}
           /\ sinkText[s] = AppendedText

\* The appended lines that are in the pending buffer, and those of them the
\* flusher appended as the caller of Log at line 181.
PendingEntries == {k \in 1..Len(appended) : InBuffer(k)}
PendingWarnings == {k \in PendingEntries : appended[k].thread = Flusher}

\* The sinks the current cycle copied and erased from m_listeners.
Evicted == {s \in cycle.snap : s \notin m_listeners}

\* The sinks the flusher's loop has still to visit.
ToVisit == {listeners[i] : i \in 1..Len(listeners)}

\* The flusher is outside a cycle that drains: at the top of its loop, in its
\* wait, or in a wake that has not found anything in the buffer.
FlusherIdle ==
    /\ fpc \in {"loop", "lockStream", "wait", "woken", "lockQueue", "check"}
    /\ lpc[Flusher] = "idle"

\* C31: a stale-listener warning is issued only for a sink that the loop of
\* the current cycle finds dead and registered, one warning for each; the
\* erase that follows takes the sink out of m_listeners and the loop does not
\* visit it again, and a sink enters m_listeners only by an AddListener call,
\* so the warning that is now in the buffer does not bring the sink back: a
\* sink is reported once for each time it was added.
\* When a cycle is done, the warnings in the buffer are as many as the sinks
\* the cycle evicted; a cycle that found no dead listener leaves no warning,
\* and leaves the buffer empty if no producer appended.  With the flush
\* trigger firing and the threads scheduled fairly, the buffer is in the end
\* empty for good and the flusher stays outside a draining cycle.
C31_NoSelfFeeding ==
    /\ [][/\ nStale' # nStale =>
                /\ nStale' = nStale + 1
                /\ fpc = "iter" /\ fpc' = "stale"
                /\ Head(listeners) \in m_listeners
                /\ ~alive[Head(listeners)]
          /\ (fpc = "stale" /\ fpc' # "stale") =>
                /\ Head(listeners) \notin m_listeners'
                /\ Head(listeners) \notin ToVisit'
                /\ Cardinality(PendingWarnings') = Cardinality(Evicted')
          /\ \A s \in Sinks :
                (s \notin m_listeners /\ s \in m_listeners') =>
                    call = [op |-> "add", sink |-> s]]_vars
    /\ [](CycleDone =>
            /\ Cardinality(PendingWarnings) = Cardinality(Evicted)
            /\ \A s \in Evicted : ~alive[s]
            /\ (Evicted = {} /\ PendingEntries \subseteq PendingWarnings) =>
                   m_pending = "")
    /\ <>[](m_pending = "" /\ FlusherIdle)

\* C31, as the specification states it: a dead listener is never reported
\* twice, so the warnings issued are at most as many as the dead sinks.
C31_NeverReportedTwice ==
    nStale <= Cardinality({s \in Sinks : ~alive[s]})

\* C31: a cycle found a dead listener, warned once and evicted it; the next
\* cycle drained the warning, found no dead listener and is done with the
\* buffer empty.
C31_Witness ==
    /\ CycleDone /\ Len(drained) = 2
    /\ nStale = 1
    /\ drained[2] = appended[Len(appended)].line
    /\ appended[Len(appended)].thread = Flusher
    /\ "s2" \notin m_listeners /\ ~alive["s2"]
    /\ Evicted = {}
    /\ m_pending = ""

=============================================================================
